---- MODULE Spec2Model ----
(***************************************************************************)
(* ccguard: the snapshot / diff / revert subsystem and the hook            *)
(* orchestrator (SnapshotHookProcessor), modelled as a state machine.      *)
(*                                                                         *)
(* The project tree is a partial map path -> content; a content is the     *)
(* sequence of its lines.  Durable storage is the key/value map of         *)
(* Storage.get/set/delete plus the dedicated session-statistics and        *)
(* guard-state records.  The SnapshotManager instance of the processor     *)
(* keeps two in-memory pointers (baselineSnapshot, lastValidSnapshot)      *)
(* which a process restart clears.                                         *)
(*                                                                         *)
(* Optional values (null | v) are written <<>> | <<v>>.                    *)
(***************************************************************************)
EXTENDS Integers, Sequences, FiniteSets, TLC

\* ------------------------------------------------------------ bounds
MaxEvents == 1          \* prompts and commands per behaviour
MaxOps == 2             \* tool operations (PRE, tool, POST) per behaviour
MaxAllowed == 1         \* thresholds.allowedPositiveLines ranges over 0..MaxAllowed
MaxTotal == 4           \* totals drawn for the pure threshold checks
MaxCalls == 4           \* steps of a behaviour that drives a SnapshotManager directly
MaxAllowance == 10       \* the larger allowedPositiveLines given to the Validator
MaxSessionLines == 8     \* lines a session has added before the validated operation
MaxOpLines == 5          \* lines one validated operation adds
MaxStatEvents == 3       \* validator events and reset commands of one session
MaxSegments == 3         \* pieces a counted text splits into at its newlines

\* ------------------------------------------------------------ universe
Paths == {"p1", "p2"}
PathOrder == <<"p1", "p2">>        \* directory walk order of the scanner
Contents == {<<"x">>, <<"x", "", "y">>}
HookSessions == {"s1"}
DefaultSession == "default"
Sessions == HookSessions \cup {DefaultSession}
FileTools == {"Edit", "Write", "MultiEdit"}
Tools == FileTools \cup {"Bash"}
IgnoreEmptyLines == TRUE

None == <<>>
Some(v) == <<v>>
Unwrap(o) == o[1]

AllDisks == UNION {[S -> Contents] : S \in SUBSET Paths}
NoFiles == [p \in {} |-> <<>>]

\* Project trees a behaviour starts from; operations reach the others.
InitDisks == {NoFiles, [p \in {"p1"} |-> <<"x">>]}

OrderedPaths(S) == SelectSeq(PathOrder, LAMBDA p : p \in S)
SeqToSet(s) == {s[i] : i \in 1..Len(s)}

\* ------------------------------------------------------------ FileScanner
countLines(content) ==
    IF IgnoreEmptyLines
    THEN Cardinality({i \in 1..Len(content) : content[i] # ""})
    ELSE Len(content)

calculateHash(content) == <<"sha256", content>>

scanFile(path, content) ==
    [path |-> path, locCount |-> countLines(content),
     hash |-> calculateHash(content), content |-> content]

scanProject(d) == [p \in DOMAIN d |-> scanFile(p, d[p])]

scanFiles(d, paths) == [p \in (paths \cap DOMAIN d) |-> scanFile(p, d[p])]

getAffectedFiles(tool, filePath) ==
    IF tool \in FileTools /\ filePath # None THEN <<Unwrap(filePath)>> ELSE <<>>

\* ------------------------------------------------------------ SnapshotManager
RECURSIVE SumLoc(_, _)
SumLoc(files, S) ==
    IF S = {} THEN 0
    ELSE LET p == CHOOSE q \in S : TRUE
         IN files[p].locCount + SumLoc(files, S \ {p})

calculateTotalLoc(files) == SumLoc(files, DOMAIN files)

\* Map <-> JSON: Object.fromEntries / Array.from(entries) on the way out,
\* new Map(Object.entries(..)) / new Map(array) on the way back.
toEntries(files) == {<<p, files[p]>> : p \in DOMAIN files}
fromEntries(entries) ==
    [p \in {e[1] : e \in entries} |-> (CHOOSE e \in entries : e[1] = p)[2]]

\* A Map handed to JSON as it is: it is written as an object without entries.
toSerializablePlain(snapshot) == [snapshot EXCEPT !.files = {}]

toSerializable(snapshot) == [snapshot EXCEPT !.files = toEntries(snapshot.files)]
fromSerializable(stored) == [stored EXCEPT !.files = fromEntries(stored.files)]

KeyKinds == {"baseline", "threshold", "current", "pre_latest", "pre_minimal", "lastvalid"}
Keys == KeyKinds \X Sessions
Key(kind, sid) == <<kind, sid>>

\* The manager's mutable state, threaded through its methods:
\*   data  durable key/value storage,
\*   memB  this.baselineSnapshot, memLV  this.lastValidSnapshot.
Ret(m, v) == [m |-> m, ret |-> v]

MakeSnapshot(sid, files, isBaseline) ==
    [sessionId |-> sid, files |-> files,
     totalLoc |-> calculateTotalLoc(files), isBaseline |-> isBaseline]

initializeBaseline(m, d, sid) ==
    LET snapshot == MakeSnapshot(sid, scanProject(d), TRUE)
        data1 == [m.data EXCEPT
                    ![Key("baseline", sid)] = Some(toSerializable(snapshot)),
                    ![Key("threshold", sid)] = Some([totalLoc |-> snapshot.totalLoc]),
                    ![Key("current", sid)] = Some([totalLoc |-> snapshot.totalLoc])]
    IN Ret([data |-> data1, memB |-> Some(snapshot), memLV |-> Some(snapshot)], snapshot)

getBaselineReinit(m, d, sid) == initializeBaseline(m, d, sid)

getBaselineRescan(m, d, sid) ==
    IF m.memB # None /\ Unwrap(m.memB).sessionId = sid
    THEN Ret(m, MakeSnapshot(sid, scanProject(d), TRUE))
    ELSE IF m.data[Key("baseline", sid)] # None
         THEN Ret(m, MakeSnapshot(sid, scanProject(d), TRUE))
         ELSE initializeBaseline(m, d, sid)

getBaseline(m, d, sid) ==
    IF m.memB # None /\ Unwrap(m.memB).sessionId = sid
    THEN Ret(m, Unwrap(m.memB))
    ELSE IF m.data[Key("baseline", sid)] # None
         THEN LET loaded == fromSerializable(Unwrap(m.data[Key("baseline", sid)]))
              IN Ret([m EXCEPT !.memB = Some(loaded)], loaded)
         ELSE initializeBaseline(m, d, sid)

getCurrentValidLoc(m, sid) ==
    IF m.data[Key("current", sid)] # None
    THEN Some(Unwrap(m.data[Key("current", sid)]).totalLoc)
    ELSE None

correctionNeededAlways(persistedLoc, currentLoc) == persistedLoc # None

correctionNeededNever(persistedLoc, currentLoc) == FALSE

\* The guard of the self-correcting write.
correctionNeeded(persistedLoc, currentLoc) ==
    persistedLoc # None /\ Unwrap(persistedLoc) # currentLoc

takeOperationSnapshotUncorrected(m, d, sid, affectedFiles) ==
    Ret(m, MakeSnapshot(sid, scanProject(d), FALSE))

takeOperationSnapshot(m, d, sid, affectedFiles) ==
    LET files == scanProject(d)
        currentLoc == calculateTotalLoc(files)
        persistedLoc == getCurrentValidLoc(m, sid)
        m1 == IF correctionNeeded(persistedLoc, currentLoc)
              THEN [m EXCEPT !.data[Key("current", sid)] = Some([totalLoc |-> currentLoc])]
              ELSE m
    IN Ret(m1, MakeSnapshot(sid, files, FALSE))

\* detectNewFiles and the merge both read "lastValidSnapshot || getBaseline".
lastValidOrBaseline(m, d, sid) ==
    IF m.memLV # None THEN Ret(m, Unwrap(m.memLV)) ELSE getBaseline(m, d, sid)

\* A merge that adds the rescanned files' counts to the base total.
takePostOperationSnapshotIncremental(m, d, sid, affectedFiles) ==
    IF Len(affectedFiles) = 0
    THEN Ret(m, MakeSnapshot(sid, scanProject(d), FALSE))
    ELSE LET b == lastValidOrBaseline(m, d, sid)
             newFiles == {p \in DOMAIN d : p \notin DOMAIN b.ret.files}
             updatedFiles == scanFiles(d, SeqToSet(affectedFiles) \cup newFiles)
             kept == (DOMAIN b.ret.files \cup DOMAIN updatedFiles)
                        \ {p \in SeqToSet(affectedFiles) : p \notin DOMAIN updatedFiles}
             files == [p \in kept |->
                         IF p \in DOMAIN updatedFiles THEN updatedFiles[p]
                         ELSE b.ret.files[p]]
         IN Ret(b.m, [MakeSnapshot(sid, files, FALSE) EXCEPT
                        !.totalLoc = b.ret.totalLoc + calculateTotalLoc(updatedFiles)])

takePostOperationSnapshot(m, d, sid, affectedFiles) ==
    IF Len(affectedFiles) = 0
    THEN Ret(m, MakeSnapshot(sid, scanProject(d), FALSE))
    ELSE LET b1 == lastValidOrBaseline(m, d, sid)
             newFiles == {p \in DOMAIN d : p \notin DOMAIN b1.ret.files}
             allFiles == SeqToSet(affectedFiles) \cup newFiles
             updatedFiles == scanFiles(d, allFiles)
             b2 == lastValidOrBaseline(b1.m, d, sid)
             base == b2.ret.files
             kept == (DOMAIN base \cup DOMAIN updatedFiles)
                        \ {p \in SeqToSet(affectedFiles) : p \notin DOMAIN updatedFiles}
             files == [p \in kept |->
                         IF p \in DOMAIN updatedFiles THEN updatedFiles[p] ELSE base[p]]
         IN Ret(b2.m, MakeSnapshot(sid, files, FALSE))

updateLastValidSnapshot(m, snapshot) ==
    [m EXCEPT !.memLV = Some(snapshot),
              !.data[Key("current", snapshot.sessionId)] =
                    Some([totalLoc |-> snapshot.totalLoc]),
              !.data[Key("lastvalid", snapshot.sessionId)] =
                    Some([snapshot |-> toSerializable(snapshot)])]

\* The test that reports a file present in both snapshots, and the delta
\* recorded for it.
fileChangedByLoc(beforeFile, afterFile) == afterFile.locCount # beforeFile.locCount

fileChangedOrTouched(beforeFile, afterFile) ==
    \/ afterFile.hash # beforeFile.hash
    \/ afterFile.lastModified # beforeFile.lastModified

fileChanged(beforeFile, afterFile) == afterFile.hash # beforeFile.hash

modifiedDeltaSwapped(beforeFile, afterFile) ==
    beforeFile.locCount - afterFile.locCount

modifiedDelta(beforeFile, afterFile) == afterFile.locCount - beforeFile.locCount

compareSnapshots(before, after) ==
    LET bf == before.files
        af == after.files
        removed == {p \in DOMAIN bf : p \notin DOMAIN af}
        modified == {p \in DOMAIN bf \cap DOMAIN af : fileChanged(bf[p], af[p])}
        added == {p \in DOMAIN af : p \notin DOMAIN bf}
        details == [p \in removed \cup modified \cup added |->
                      IF p \in removed
                      THEN [before |-> bf[p].locCount, after |-> 0,
                            delta |-> 0 - bf[p].locCount]
                      ELSE IF p \in modified
                      THEN [before |-> bf[p].locCount, after |-> af[p].locCount,
                            delta |-> modifiedDelta(bf[p], af[p])]
                      ELSE [before |-> 0, after |-> af[p].locCount,
                            delta |-> af[p].locCount]]
    IN [added |-> added, removed |-> removed, modified |-> modified,
        locDelta |-> after.totalLoc - before.totalLoc, details |-> details]

\* ------------------------------------------------------------ thresholds
\* SnapshotManager.checkThreshold once the baseline is known.
checkThresholdResultGte(currentTotal, baselineTotal, allowedPositiveLines) ==
    [exceeded |-> currentTotal - baselineTotal >= allowedPositiveLines,
     current |-> currentTotal, baseline |-> baselineTotal,
     delta |-> currentTotal - baselineTotal]

checkThresholdResult(currentTotal, baselineTotal, allowedPositiveLines) ==
    [exceeded |-> currentTotal - baselineTotal > allowedPositiveLines,
     current |-> currentTotal, baseline |-> baselineTotal,
     delta |-> currentTotal - baselineTotal]

checkThresholdLastValid(m, d, sid, currentSnapshot, allowedPositiveLines) ==
    LET b == lastValidOrBaseline(m, d, sid)
    IN Ret(b.m, checkThresholdResult(currentSnapshot.totalLoc, b.ret.totalLoc,
                                     allowedPositiveLines))

checkThreshold(m, d, sid, currentSnapshot, allowedPositiveLines) ==
    LET b == getBaseline(m, d, sid)
    IN Ret(b.m, checkThresholdResult(currentSnapshot.totalLoc, b.ret.totalLoc,
                                     allowedPositiveLines))

\* The session-wide comparison of the cumulative POST handler and of the
\* Validator: projected net change against thresholds.allowedPositiveLines.
projectedExceeds(projectedNetChange, threshold) == projectedNetChange > threshold

validatorDecisionGte(netChange, threshold) ==
    IF netChange >= threshold THEN "block" ELSE "approve"

validatorDecision(netChange, threshold) ==
    IF netChange > threshold THEN "block" ELSE "approve"

\* checkSnapshotThreshold with a recorded threshold: allowedPositiveLines is
\* not an input, the baseline LOC is the limit.
snapshotThresholdResultGte(currentLoc, baselineLoc) ==
    [exceeded |-> currentLoc >= baselineLoc, current |-> currentLoc,
     baseline |-> baselineLoc, delta |-> currentLoc - baselineLoc]

snapshotThresholdResult(currentLoc, baselineLoc) ==
    [exceeded |-> currentLoc > baselineLoc, current |-> currentLoc,
     baseline |-> baselineLoc, delta |-> currentLoc - baselineLoc]

checkSnapshotThresholdUnrecorded(m, d, sid, currentLoc) ==
    IF m.data[Key("threshold", sid)] = None
    THEN Ret(m, [exceeded |-> FALSE, current |-> currentLoc,
                 baseline |-> currentLoc, delta |-> 0])
    ELSE Ret(m, snapshotThresholdResult(currentLoc,
                    Unwrap(m.data[Key("threshold", sid)]).totalLoc))

checkSnapshotThreshold(m, d, sid, currentLoc) ==
    IF m.data[Key("threshold", sid)] = None
    THEN LET b == initializeBaseline(m, d, sid)
         IN Ret(b.m, [exceeded |-> FALSE, current |-> currentLoc,
                      baseline |-> b.ret.totalLoc, delta |-> 0])
    ELSE Ret(m, snapshotThresholdResult(currentLoc,
                    Unwrap(m.data[Key("threshold", sid)]).totalLoc))

\* ------------------------------------------------------------ RevertManager
createBackup(d, files) == [p \in (SeqToSet(files) \cap DOMAIN d) |-> d[p]]

restoreBackup(d, backup) ==
    [p \in DOMAIN d \cup DOMAIN backup |->
        IF p \in DOMAIN backup THEN backup[p] ELSE d[p]]

\* One iteration of the revert loop for filePath.
revertStep(d, filePath, snapshotFiles) ==
    IF filePath \notin DOMAIN snapshotFiles
    THEN [p \in DOMAIN d \ {filePath} |-> d[p]]
    ELSE [p \in DOMAIN d \cup {filePath} |->
            IF p = filePath THEN snapshotFiles[filePath].content ELSE d[p]]

\* Does the iteration for filePath call into the file system (unlinkSync,
\* mkdirSync/writeFileSync), so that it can throw?
stepTouchesDisk(d, filePath, snapshotFiles) ==
    filePath \in DOMAIN snapshotFiles \/ filePath \in DOMAIN d

RECURSIVE revertLoop(_, _, _, _)
revertLoop(d, files, snapshotFiles, n) ==
    IF n = 0 THEN d
    ELSE revertStep(revertLoop(d, files, snapshotFiles, n - 1), files[n], snapshotFiles)

\* failAt = 0: no step throws; failAt = k: the k-th iteration throws before
\* it changes anything, after iterations 1..k-1 have been applied.
revertToSnapshot(d, affectedFiles, snapshot, failAt) ==
    LET backup == createBackup(d, affectedFiles)
        throws == /\ failAt \in 1..Len(affectedFiles)
                  /\ stepTouchesDisk(revertLoop(d, affectedFiles, snapshot.files, failAt - 1),
                                     affectedFiles[failAt], snapshot.files)
    IN IF ~throws
       THEN [disk |-> revertLoop(d, affectedFiles, snapshot.files, Len(affectedFiles)),
             success |-> TRUE]
       ELSE [disk |-> restoreBackup(
                         revertLoop(d, affectedFiles, snapshot.files, failAt - 1), backup),
             success |-> FALSE]

\* The RevertManager class declared in SnapshotManager.ts restores a file the
\* snapshot knows through git.  repo = [head, tracked]: the tree of the HEAD
\* commit and the paths in the index (none outside a git repository).
isFileTracked(repo, filePath) == filePath \in repo.tracked

\* git checkout HEAD -- file for a tracked file (it fails when HEAD has no such
\* path), unlink for an untracked one.
revertFile(d, filePath, repo) ==
    IF isFileTracked(repo, filePath)
    THEN IF filePath \in DOMAIN repo.head
         THEN [disk |-> [p \in DOMAIN d \cup {filePath} |->
                           IF p = filePath THEN repo.head[filePath] ELSE d[p]],
               ok |-> TRUE]
         ELSE [disk |-> d, ok |-> FALSE]
    ELSE [disk |-> [p \in DOMAIN d \ {filePath} |-> d[p]], ok |-> TRUE]

revertStepGit(d, filePath, snapshotFiles, repo) ==
    IF filePath \notin DOMAIN snapshotFiles
    THEN [disk |-> [p \in DOMAIN d \ {filePath} |-> d[p]], ok |-> TRUE]
    ELSE revertFile(d, filePath, repo)

RECURSIVE revertLoopGit(_, _, _, _, _)
revertLoopGit(d, files, snapshotFiles, repo, n) ==
    IF n = 0 THEN [disk |-> d, ok |-> TRUE]
    ELSE LET prev == revertLoopGit(d, files, snapshotFiles, repo, n - 1)
         IN IF prev.ok THEN revertStepGit(prev.disk, files[n], snapshotFiles, repo)
            ELSE prev

revertToSnapshotGit(d, affectedFiles, snapshot, repo) ==
    LET backup == createBackup(d, affectedFiles)
        r == revertLoopGit(d, affectedFiles, snapshot.files, repo, Len(affectedFiles))
    IN IF r.ok THEN [disk |-> r.disk, success |-> TRUE]
       ELSE [disk |-> restoreBackup(r.disk, backup), success |-> FALSE]

\* ------------------------------------------------------------ state
VARIABLES
    disk,          \* the project tree: existing path -> content
    data,          \* Storage.get/set/delete: key -> null | value
    sessionStats,  \* Storage.getSessionStats: null | record
    guardState,    \* Storage.getGuardState: null | [enabled]
    memB,          \* processor's SnapshotManager.baselineSnapshot
    memLV,         \* processor's SnapshotManager.lastValidSnapshot
    strategy,      \* config.enforcement.strategy
    limitType,     \* config.enforcement.limitType
    allowed,       \* config.thresholds.allowedPositiveLines
    phase,         \* event source: "idle" | "tool" (PRE sent) | "post" (tool ran)
    op,            \* the tool operation in flight
    opPreDisk,     \* history: the tree when the operation's PRE was sent
    cmdTotal,      \* history: session -> total measured by its last snapshot command
    last,          \* history: the event handled last and its result
    events,        \* number of prompts and commands sent so far
    ops,           \* number of tool operations started so far
    thrIn,         \* input of the pure threshold checks
    thrOut,        \* their results
    callIn,        \* arguments of a direct revertToSnapshot call
    callOut        \* result of the last direct call of a manager method

vars == <<disk, data, sessionStats, guardState, memB, memLV, strategy, limitType,
          allowed, phase, op, opPreDisk, cmdTotal, last, events, ops, thrIn, thrOut,
          callIn, callOut>>

mainVars == <<disk, data, sessionStats, guardState, memB, memLV, strategy, limitType,
              allowed, phase, op, opPreDisk, cmdTotal, last, events, ops>>

EventTools == {"Write", "Bash"}   \* Edit and MultiEdit take Write's path in every handler

Mgr == [data |-> data, memB |-> memB, memLV |-> memLV]

NoCheck == [exceeded |-> FALSE, current |-> 0, baseline |-> 0, delta |-> 0]
NoOp == [sid |-> DefaultSession, tool |-> "none", filePath |-> None]

LastOf(kind, sid, decision, reason) ==
    [kind |-> kind, sid |-> sid, decision |-> decision, reason |-> reason,
     checked |-> FALSE, exceeded |-> FALSE, check |-> NoCheck,
     revertCalled |-> FALSE, revertOk |-> FALSE, revertPaths |-> <<>>,
     diskBefore |-> NoFiles, opPreDisk |-> NoFiles, op |-> NoOp,
     hadPre |-> FALSE, warning |-> FALSE, postTotal |-> None]

isSnapshotMode == strategy = "snapshot"

\* The guard read with the default of buildContext (enabled ?? true).
isEnabledByDefault == guardState = None \/ Unwrap(guardState).enabled

\* GuardManager.isEnabled: state?.enabled ?? false
isEnabled == guardState # None /\ Unwrap(guardState).enabled

\* The policy of the limit type: under "soft" an exceeded check approves with
\* a warning and nothing is reverted; only a check that is not exceeded commits
\* the snapshot as last-valid.
softLimitAppliesNever(exceeded) == FALSE

softLimitApplies(exceeded) == exceeded /\ limitType = "soft"

\* ------------------------------------------------------------ GuardManager
ZeroStats == [totalLinesAdded |-> 0, totalLinesRemoved |-> 0, netChange |-> 0,
              operationCount |-> 0]

updateSessionStats(stats, linesAdded, linesRemoved) ==
    LET cur == IF stats = None THEN ZeroStats ELSE Unwrap(stats)
        added == cur.totalLinesAdded + linesAdded
        removed == cur.totalLinesRemoved + linesRemoved
    IN Some([totalLinesAdded |-> added, totalLinesRemoved |-> removed,
             netChange |-> added - removed,
             operationCount |-> cur.operationCount + 1])

\* takeSnapshot runs initializeBaseline on the GuardManager's own
\* SnapshotManager instance: the processor's in-memory pointers are not touched.
takeSnapshotDefaultSession(sessionId) ==
    IF sessionId = None THEN DefaultSession ELSE Unwrap(sessionId)

takeSnapshot(m, d, sessionId) ==
    LET r == initializeBaseline(m, d, takeSnapshotDefaultSession(sessionId))
    IN Ret([m EXCEPT !.data = r.m.data], r.ret)

\* ------------------------------------------------------------ PRE
preErrorDecisionBlock == "block"

\* The catch branch of handlePreToolUse.
preErrorDecision == "approve"

PreFailures == {"none", "baseline", "snapshot", "store"}

handlePreToolUse(m, d, sid, tool, filePath, fail) ==
    LET affectedFiles == getAffectedFiles(tool, filePath)
        b == getBaseline(m, d, sid)
        t == takeOperationSnapshot(b.m, d, sid, affectedFiles)
        stored == IF isSnapshotMode
                  THEN [snapshot |-> toSerializable(t.ret),
                        affectedFiles |-> affectedFiles]
                  ELSE [snapshot |-> toSerializable(t.ret),
                        affectedFiles |-> affectedFiles,
                        operation |-> [sid |-> sid, tool |-> tool, filePath |-> filePath]]
        key == IF isSnapshotMode THEN "pre_minimal" ELSE "pre_latest"
        failed(mm) == [m |-> mm, decision |-> preErrorDecision,
                       reason |-> "Pre-operation snapshot failed, but allowing operation"]
    IN CASE fail = "baseline" -> failed(m)
         [] fail = "snapshot" -> failed(b.m)
         [] fail = "store" -> failed(t.m)
         [] OTHER -> [m |-> [t.m EXCEPT !.data[Key(key, sid)] = Some(stored)],
                      decision |-> "approve",
                      reason |-> "Operation approved - will validate after completion"]

\* ------------------------------------------------------------ POST
noPreSnapshotDecisionBlock == "block"

\* Cumulative POST without a stored pre-operation snapshot.
noPreSnapshotDecision == "approve"

Outcome(m, d, stats, decision, reason) ==
    [m |-> m, disk |-> d, stats |-> stats, decision |-> decision, reason |-> reason,
     checked |-> FALSE, exceeded |-> FALSE, check |-> NoCheck,
     revertCalled |-> FALSE, revertOk |-> FALSE, revertPaths |-> <<>>,
     hadPre |-> FALSE, warning |-> FALSE, postTotal |-> None, floating |-> None]

\* The cumulative handler calls updateLastValidSnapshot without await: the
\* pointer is set at once, the two storage.set calls run on while the handler
\* goes on and returns.  floating is the snapshot of such a call.  When the
\* decision has been printed the process exits; commit tells how far the
\* writes got: "done" both completed (the only case in which the instance may
\* live on), otherwise the state of the two files at the exit ("old" not
\* started, "cut" opened and truncated but not written, "new" written).
CommitOutcomes ==
    {"done", "old-old", "cut-old", "new-old", "new-cut"}

settleCommit(m, floating, commit) ==
    IF floating = None \/ commit = "done"
    THEN IF floating = None THEN m ELSE updateLastValidSnapshot(m, Unwrap(floating))
    ELSE LET s == Unwrap(floating)
             full == updateLastValidSnapshot(m, s).data
             kc == Key("current", s.sessionId)
             kl == Key("lastvalid", s.sessionId)
             cur == CASE commit = "old-old" -> m.data[kc]
                      [] commit = "cut-old" -> None
                      [] OTHER -> full[kc]
             lv == CASE commit = "new-cut" -> None
                     [] OTHER -> m.data[kl]
         IN [data |-> [m.data EXCEPT ![kc] = cur, ![kl] = lv],
             memB |-> None, memLV |-> None]

RECURSIVE SumAdded(_, _)
SumAdded(details, S) ==
    IF S = {} THEN 0
    ELSE LET p == CHOOSE q \in S : TRUE
         IN (IF details[p].delta > 0 THEN details[p].delta ELSE 0)
            + SumAdded(details, S \ {p})

RECURSIVE SumRemoved(_, _)
SumRemoved(details, S) ==
    IF S = {} THEN 0
    ELSE LET p == CHOOSE q \in S : TRUE
         IN (IF details[p].delta < 0 THEN 0 - details[p].delta ELSE 0)
            + SumRemoved(details, S \ {p})

\* Cumulative mode: the files handed to the revert.
filesToRevert(affectedFiles, operationDiff) ==
    IF Len(affectedFiles) > 0 THEN affectedFiles
    ELSE OrderedPaths(DOMAIN operationDiff.details)

\* Lines added and removed by the operation, and the projected session total.
cumulativeCheck(stats, operationDiff) ==
    LET linesAdded == SumAdded(operationDiff.details, DOMAIN operationDiff.details)
        linesRemoved == SumRemoved(operationDiff.details, DOMAIN operationDiff.details)
        cur == IF stats = None THEN ZeroStats ELSE Unwrap(stats)
        projectedNetChange == (cur.totalLinesAdded + linesAdded)
                                - (cur.totalLinesRemoved + linesRemoved)
    IN [linesAdded |-> linesAdded, linesRemoved |-> linesRemoved,
        projectedNetChange |-> projectedNetChange,
        exceeded |-> projectedExceeds(projectedNetChange, allowed)]

\* The block results: revert failed, or reverted (checkThreshold feeds the message).
cumulativeBlockedCounted(base, rv, tc, toRevert) ==
    [base EXCEPT !.m = tc.m, !.disk = rv.disk, !.decision = "block",
                 !.reason = "Operation reverted: LOC threshold exceeded!",
                 !.stats = updateSessionStats(base.stats, 0, 0),
                 !.revertCalled = TRUE, !.revertOk = rv.success,
                 !.revertPaths = toRevert]

cumulativeBlocked(base, rv, tc, toRevert) ==
    IF ~rv.success
    THEN [base EXCEPT !.disk = rv.disk, !.decision = "block",
                      !.reason = "LOC threshold exceeded. Failed to revert",
                      !.revertCalled = TRUE, !.revertPaths = toRevert]
    ELSE [base EXCEPT !.m = tc.m, !.disk = rv.disk, !.decision = "block",
                      !.reason = "Operation reverted: LOC threshold exceeded!",
                      !.revertCalled = TRUE, !.revertOk = TRUE,
                      !.revertPaths = toRevert]

cumulativeRevert(base, post, rv, toRevert, sid) ==
    cumulativeBlocked(base, rv,
                      checkThreshold(post.m, rv.disk, sid, post.ret, allowed), toRevert)

cumulativeDecide(post, preSnapshot, operationDiff, c, affectedFiles, d, stats, sid, failAt) ==
    LET base == [Outcome(post.m, d, stats, "approve", "Operation completed successfully")
                   EXCEPT !.hadPre = TRUE, !.checked = TRUE, !.exceeded = c.exceeded,
                          !.postTotal = Some(post.ret.totalLoc),
                          !.check = [exceeded |-> c.exceeded,
                                     current |-> c.projectedNetChange,
                                     baseline |-> 0, delta |-> c.projectedNetChange]]
    IN IF c.exceeded
       THEN IF softLimitApplies(c.exceeded)
            THEN [base EXCEPT !.warning = TRUE, !.reason = "SOFT LIMIT EXCEEDED"]
            ELSE cumulativeRevert(base, post,
                                  revertToSnapshot(d, filesToRevert(affectedFiles, operationDiff),
                                                   preSnapshot, failAt),
                                  filesToRevert(affectedFiles, operationDiff), sid)
       ELSE [base EXCEPT !.m = [post.m EXCEPT !.memLV = Some(post.ret)],
                         !.floating = Some(post.ret),
                         !.stats = updateSessionStats(stats, c.linesAdded, c.linesRemoved)]

cumulativeCompare(post, preSnapshot, operationDiff, affectedFiles, d, stats, sid, failAt) ==
    cumulativeDecide(post, preSnapshot, operationDiff,
                     cumulativeCheck(stats, operationDiff),
                     affectedFiles, d, stats, sid, failAt)

cumulativeWithPost(preData, post, d, stats, sid, failAt) ==
    cumulativeCompare(post, fromSerializable(preData.snapshot),
                      compareSnapshots(fromSerializable(preData.snapshot), post.ret),
                      preData.affectedFiles, d, stats, sid, failAt)

cumulativeWithPre(preData, m, d, stats, sid, failAt) ==
    cumulativeWithPost(preData,
                       takePostOperationSnapshot(m, d, sid, preData.affectedFiles),
                       d, stats, sid, failAt)

handlePostToolUseCumulative(m, d, stats, sid, failAt) ==
    IF m.data[Key("pre_latest", sid)] = None
    THEN Outcome(m, d, stats, noPreSnapshotDecision, "No pre-operation snapshot available")
    ELSE cumulativeWithPre(Unwrap(m.data[Key("pre_latest", sid)]), m, d, stats, sid, failAt)

\* Snapshot mode: the block results after the revert attempt.  The message of the
\* failed revert opens with the headline of the successful one.
snapshotModeBlocked(base, rv, affectedFiles) ==
    IF ~rv.success
    THEN [base EXCEPT !.disk = rv.disk, !.decision = "block",
                      !.reason = "Operation reverted: LOC threshold exceeded! Failed to automatically revert",
                      !.revertCalled = TRUE, !.revertPaths = affectedFiles]
    ELSE [base EXCEPT !.disk = rv.disk, !.decision = "block",
                      !.reason = "Operation reverted: LOC threshold exceeded!",
                      !.revertCalled = TRUE, !.revertOk = TRUE,
                      !.revertPaths = affectedFiles]

snapshotModeDecide(cs, tc, d, stats, sid, affectedFiles, failAt) ==
    LET exceeded == tc.ret.exceeded
        preOpt == tc.m.data[Key("pre_minimal", sid)]
        base == [Outcome(tc.m, d, stats, "approve", "Operation completed successfully")
                   EXCEPT !.checked = TRUE, !.exceeded = exceeded, !.check = tc.ret,
                          !.postTotal = Some(cs.ret.totalLoc),
                          !.hadPre = (preOpt # None)]
    IN IF exceeded
       THEN IF softLimitApplies(exceeded)
            THEN [base EXCEPT !.warning = TRUE, !.reason = "SOFT LIMIT EXCEEDED"]
            ELSE IF preOpt # None
            THEN snapshotModeBlocked(base,
                    revertToSnapshot(d, affectedFiles,
                                     fromSerializable(Unwrap(preOpt).snapshot), failAt),
                    affectedFiles)
            ELSE [base EXCEPT !.decision = "block",
                              !.reason = "Operation reverted: LOC threshold exceeded!"]
       ELSE [base EXCEPT
               !.m = [updateLastValidSnapshot(tc.m, cs.ret)
                        EXCEPT !.data[Key("pre_minimal", sid)] = None]]

snapshotModeCheck(cs, d, stats, sid, affectedFiles, failAt) ==
    snapshotModeDecide(cs, checkSnapshotThreshold(cs.m, d, sid, cs.ret.totalLoc),
                       d, stats, sid, affectedFiles, failAt)

handleSnapshotModePostToolUse(m, d, stats, sid, tool, filePath, failAt) ==
    snapshotModeCheck(takePostOperationSnapshot(m, d, sid, getAffectedFiles(tool, filePath)),
                      d, stats, sid, getAffectedFiles(tool, filePath), failAt)

handlePostToolUse(m, d, stats, sid, tool, filePath, failAt) ==
    IF isSnapshotMode
    THEN handleSnapshotModePostToolUse(m, d, stats, sid, tool, filePath, failAt)
    ELSE handlePostToolUseCumulative(m, d, stats, sid, failAt)

\* ------------------------------------------------------------ actions
Init ==
    /\ disk \in InitDisks
    /\ data = [k \in Keys |-> None]
    /\ sessionStats = None
    /\ guardState \in {None, Some([enabled |-> TRUE])}
    /\ memB = None
    /\ memLV = None
    /\ strategy \in {"cumulative", "snapshot"}
    /\ limitType \in {"hard", "soft"}
    /\ allowed \in 0..MaxAllowed
    /\ phase = "idle"
    /\ op = NoOp
    /\ opPreDisk = NoFiles
    /\ cmdTotal = [s \in HookSessions |-> None]
    /\ last = LastOf("init", DefaultSession, "none", "")
    /\ events = 0
    /\ ops = 0
    /\ thrIn = None
    /\ thrOut = None
    /\ callIn = None
    /\ callOut = None

Config == <<strategy, limitType, allowed>>
Pure == <<ops, thrIn, thrOut, callIn, callOut>>

SetMgr(m) ==
    /\ data' = m.data
    /\ memB' = m.memB
    /\ memLV' = m.memLV

\* "ccguard on" / "ccguard off": EnableCommand, DisableCommand.
EnableCommand(sid) ==
    /\ phase = "idle"
    /\ events < MaxEvents
    /\ guardState' = Some([enabled |-> TRUE])
    /\ last' = LastOf("enable", sid, "block", "CCGuard is now ENABLED")
    /\ events' = events + 1
    /\ UNCHANGED <<disk, data, sessionStats, memB, memLV, Config, phase, op,
                   opPreDisk, cmdTotal, Pure>>

DisableCommand(sid) ==
    /\ phase = "idle"
    /\ events < MaxEvents
    /\ guardState' = Some([enabled |-> FALSE])
    /\ last' = LastOf("disable", sid, "block", "CCGuard is now DISABLED")
    /\ events' = events + 1
    /\ UNCHANGED <<disk, data, sessionStats, memB, memLV, Config, phase, op,
                   opPreDisk, cmdTotal, Pure>>

\* "ccguard snapshot" typed in session sid: SnapshotCommand.execute calls
\* guardManager.takeSnapshot() with no session id.
SnapshotCommand(sid) ==
    /\ phase = "idle"
    /\ events < MaxEvents
    /\ LET r == takeSnapshot(Mgr, disk, None)
       IN /\ SetMgr(r.m)
          /\ cmdTotal' = [cmdTotal EXCEPT ![sid] = Some(r.ret.totalLoc)]
          /\ last' = LastOf("snapshotCommand", sid, "block",
                            "Snapshot baseline updated successfully!")
    /\ events' = events + 1
    /\ UNCHANGED <<disk, sessionStats, guardState, Config, phase, op, opPreDisk, Pure>>

\* GuardManager.takeSnapshot(sessionId) called with an explicit session.
TakeSnapshot(sid) ==
    /\ phase = "idle"
    /\ events < MaxEvents
    /\ LET r == takeSnapshot(Mgr, disk, Some(sid))
       IN /\ SetMgr(r.m)
          /\ last' = LastOf("takeSnapshot", sid, "none", "")
    /\ cmdTotal' = [cmdTotal EXCEPT ![sid] = None]
    /\ events' = events + 1
    /\ UNCHANGED <<disk, sessionStats, guardState, Config, phase, op, opPreDisk, Pure>>

\* A UserPromptSubmit that is no ccguard command.
UserPromptSubmit(sid) ==
    /\ phase = "idle"
    /\ events < MaxEvents
    /\ IF ~isEnabled
       THEN /\ last' = LastOf("prompt", sid, "approve", "")
            /\ UNCHANGED <<data, memB, memLV>>
       ELSE /\ SetMgr(getBaseline(Mgr, disk, sid).m)
            /\ last' = LastOf("prompt", sid, "approve", "Session initialized")
    /\ events' = events + 1
    /\ UNCHANGED <<disk, sessionStats, guardState, Config, phase, op, opPreDisk,
                   cmdTotal, Pure>>

OpInputs(tool) ==
    IF tool \in FileTools THEN {Some(p) : p \in Paths} ELSE {None}

\* A PreToolUse event arrives and is handled.
PreToolUse(sid, tool, filePath, fail) ==
    /\ phase = "idle"
    /\ ops < MaxOps
    /\ IF ~isEnabled
       THEN /\ last' = LastOf("PRE", sid, "approve", "")
            /\ UNCHANGED <<data, memB, memLV>>
       ELSE LET r == handlePreToolUse(Mgr, disk, sid, tool, filePath, fail)
            IN /\ SetMgr(r.m)
               /\ last' = LastOf("PRE", sid, r.decision, r.reason)
    /\ op' = [sid |-> sid, tool |-> tool, filePath |-> filePath]
    /\ opPreDisk' = disk
    /\ phase' = "tool"
    /\ ops' = ops + 1
    /\ UNCHANGED <<disk, sessionStats, guardState, Config, cmdTotal, events, thrIn, thrOut, callIn, callOut>>

\* The process handling PRE died before it stored anything: the tool still runs
\* and its POST arrives without a matching PRE record.
PreLost(sid, tool, filePath) ==
    /\ phase = "idle"
    /\ ops < MaxOps
    /\ op' = [sid |-> sid, tool |-> tool, filePath |-> filePath]
    /\ opPreDisk' = disk
    /\ phase' = "tool"
    /\ last' = LastOf("PRE_lost", sid, "none", "")
    /\ ops' = ops + 1
    /\ UNCHANGED <<disk, data, sessionStats, guardState, memB, memLV, Config,
                   cmdTotal, events, thrIn, thrOut, callIn, callOut>>

\* The assistant's tool executes: a file tool writes its file_path, a shell
\* command may create, modify and delete any files.
ToolRuns ==
    /\ phase = "tool"
    /\ IF op.tool \in FileTools
       THEN \E c \in Contents :
               disk' = [p \in DOMAIN disk \cup {Unwrap(op.filePath)} |->
                          IF p = Unwrap(op.filePath) THEN c ELSE disk[p]]
       ELSE disk' \in AllDisks
    /\ phase' = "post"
    /\ last' = LastOf("tool", op.sid, "none", "")
    /\ UNCHANGED <<data, sessionStats, guardState, memB, memLV, Config, op,
                   opPreDisk, cmdTotal, events, Pure>>

\* The effects of a handled PostToolUse.
applyPost(r) ==
    /\ \E commit \in (IF r.floating = None THEN {"done"} ELSE CommitOutcomes) :
          SetMgr(settleCommit(r.m, r.floating, commit))
    /\ disk' = r.disk
    /\ sessionStats' = r.stats
    /\ last' = [LastOf("POST", op.sid, r.decision, r.reason) EXCEPT
                  !.checked = r.checked, !.exceeded = r.exceeded,
                  !.check = r.check, !.revertCalled = r.revertCalled,
                  !.revertOk = r.revertOk, !.revertPaths = r.revertPaths,
                  !.hadPre = r.hadPre, !.warning = r.warning,
                  !.postTotal = r.postTotal,
                  !.diskBefore = disk, !.opPreDisk = opPreDisk, !.op = op]

\* The PostToolUse event of the operation in flight is handled.
PostToolUse(failAt) ==
    /\ phase = "post"
    /\ IF ~isEnabled
       THEN /\ last' = [LastOf("POST", op.sid, "approve", "") EXCEPT
                             !.diskBefore = disk, !.opPreDisk = opPreDisk, !.op = op]
            /\ UNCHANGED <<disk, data, memB, memLV, sessionStats>>
       ELSE applyPost(handlePostToolUse(Mgr, disk, sessionStats, op.sid, op.tool,
                                        op.filePath, failAt))
    /\ phase' = "idle"
    /\ op' = NoOp
    /\ opPreDisk' = NoFiles
    /\ UNCHANGED <<guardState, Config, cmdTotal, events, Pure>>

\* The next event is handled by a fresh process: the in-memory pointers are gone.
Restart ==
    /\ memB # None \/ memLV # None
    /\ memB' = None
    /\ memLV' = None
    /\ last' = LastOf("restart", DefaultSession, "none", "")
    /\ UNCHANGED <<disk, data, sessionStats, guardState, Config, phase, op,
                   opPreDisk, cmdTotal, events, Pure>>

Next ==
    \/ \E sid \in HookSessions : EnableCommand(sid)
    \/ \E sid \in HookSessions : DisableCommand(sid)
    \/ \E sid \in HookSessions : SnapshotCommand(sid)
    \/ \E sid \in HookSessions : TakeSnapshot(sid)
    \/ \E sid \in HookSessions : UserPromptSubmit(sid)
    \/ \E sid \in HookSessions, tool \in EventTools :
          \E filePath \in OpInputs(tool), fail \in PreFailures :
             PreToolUse(sid, tool, filePath, fail)
    \/ \E sid \in HookSessions, tool \in EventTools :
          \E filePath \in OpInputs(tool) : PreLost(sid, tool, filePath)
    \/ ToolRuns
    \/ \E failAt \in 0..Cardinality(Paths) : PostToolUse(failAt)
    \/ Restart

Spec == Init /\ [][Next]_vars

\* ------------------------------------------------------------ pure threshold checks
InitThreshold ==
    /\ disk = NoFiles
    /\ data = [k \in Keys |-> None]
    /\ sessionStats = None
    /\ guardState = None
    /\ memB = None
    /\ memLV = None
    /\ strategy = "cumulative"
    /\ limitType = "hard"
    /\ allowed = 0
    /\ phase = "idle"
    /\ op = NoOp
    /\ opPreDisk = NoFiles
    /\ cmdTotal = [s \in HookSessions |-> None]
    /\ last = LastOf("init", DefaultSession, "none", "")
    /\ events = 0
    /\ ops = 0
    /\ thrIn \in {Some([R |-> r, C |-> c, A |-> a]) :
                    r \in 0..MaxTotal, c \in 0..MaxTotal, a \in 0..(MaxAllowed + 1)}
    /\ thrOut = None
    /\ callIn = None
    /\ callOut = None

ApplyThreshold ==
    /\ thrOut = None
    /\ LET i == Unwrap(thrIn)
       IN thrOut' = Some([check |-> checkThresholdResult(i.C, i.R, i.A),
                          projected |-> projectedExceeds(i.C - i.R, i.A),
                          validator |-> validatorDecision(i.C - i.R, i.A),
                          snapshot |-> snapshotThresholdResult(i.C, i.R)])
    /\ UNCHANGED <<mainVars, thrIn, callIn, callOut>>

NextThreshold == ApplyThreshold

SpecThreshold == InitThreshold /\ [][NextThreshold]_vars

\* ------------------------------------------------------------ direct revert calls
\* The variables of the hook processor at rest.
InitIdle ==
    /\ data = [k \in Keys |-> None]
    /\ sessionStats = None
    /\ guardState = None
    /\ memB = None
    /\ memLV = None
    /\ strategy = "cumulative"
    /\ limitType = "hard"
    /\ allowed = 0
    /\ phase = "idle"
    /\ op = NoOp
    /\ opPreDisk = NoFiles
    /\ cmdTotal = [s \in HookSessions |-> None]
    /\ last = LastOf("init", DefaultSession, "none", "")
    /\ events = 0
    /\ ops = 0
    /\ thrIn = None
    /\ thrOut = None

AffectedLists == {<<>>, <<"p1">>, <<"p2">>, <<"p1", "p2">>, <<"p2", "p1">>}

\* revertToSnapshot(P, S) called on any tree, with S the scan of any tree, in a
\* directory whose git state is any repo (tracked = {}: not a repository).
InitRevert ==
    /\ InitIdle
    /\ disk \in AllDisks
    /\ callIn \in {Some([affectedFiles |-> P,
                         snapshot |-> MakeSnapshot("s1", scanProject(sd), FALSE),
                         failAt |-> k,
                         repo |-> [head |-> h, tracked |-> t]]) :
                      P \in AffectedLists, sd \in AllDisks, k \in 0..Cardinality(Paths),
                      h \in AllDisks, t \in SUBSET Paths}
    /\ callOut = None

ApplyRevert ==
    /\ callOut = None
    /\ LET i == Unwrap(callIn)
           c == revertToSnapshot(disk, i.affectedFiles, i.snapshot, i.failAt)
           g == revertToSnapshotGit(disk, i.affectedFiles, i.snapshot, i.repo)
       IN callOut' = Some([content |-> c, git |-> g])
    /\ UNCHANGED <<mainVars, thrIn, thrOut, callIn>>

NextRevert == ApplyRevert

SpecRevert == InitRevert /\ [][NextRevert]_vars

\* ------------------------------------------------------------ direct comparisons
\* compareSnapshots(before, after) called on two snapshots of session "s1", each
\* the scan of any tree taken at some time; a file of three contents, two of
\* them with the same line count.
DiffContents == Contents \cup {<<"y">>}
DiffTrees == UNION {[S -> DiffContents] : S \in SUBSET Paths}
ScanTimes == {1, 2}

\* FileScanner.scanFile: the record of a file, with the mtime its stat gives.
scanFileAt(path, content, mtime) ==
    [path |-> path, locCount |-> countLines(content),
     hash |-> calculateHash(content), lastModified |-> mtime,
     content |-> content]

scanProjectAt(d, mtime) == [p \in DOMAIN d |-> scanFileAt(p, d[p], mtime)]

InitDiff ==
    /\ InitIdle
    /\ disk = NoFiles
    /\ callIn \in {Some([before |-> MakeSnapshot("s1", scanProjectAt(d1, 1), b),
                         after |-> MakeSnapshot("s1", scanProjectAt(d2, t), FALSE)]) :
                      d1 \in DiffTrees, d2 \in DiffTrees, t \in ScanTimes,
                      b \in BOOLEAN}
    /\ callOut = None

ApplyDiff ==
    /\ callOut = None
    /\ LET i == Unwrap(callIn)
       IN callOut' = Some(compareSnapshots(i.before, i.after))
    /\ UNCHANGED <<mainVars, thrIn, thrOut, callIn>>

NextDiff == ApplyDiff

SpecDiff == InitDiff /\ [][NextDiff]_vars

\* ------------------------------------------------------------ direct round trips
\* toSerializable applied to the snapshot of any scan, then fromSerializable
\* applied to what was stored.
InitRoundTrip ==
    /\ InitIdle
    /\ disk = NoFiles
    /\ callIn \in {Some([snapshot |-> MakeSnapshot("s1", scanProjectAt(d, t), b)]) :
                      d \in DiffTrees, t \in ScanTimes, b \in BOOLEAN}
    /\ callOut = None

ApplyToSerializable ==
    /\ callOut = None
    /\ callOut' = Some([stored |-> toSerializable(Unwrap(callIn).snapshot),
                        loaded |-> None])
    /\ UNCHANGED <<mainVars, thrIn, thrOut, callIn>>

ApplyFromSerializable ==
    /\ callOut # None
    /\ Unwrap(callOut).loaded = None
    /\ callOut' = Some([Unwrap(callOut) EXCEPT
                          !.loaded = Some(fromSerializable(Unwrap(callOut).stored))])
    /\ UNCHANGED <<mainVars, thrIn, thrOut, callIn>>

NextRoundTrip == ApplyToSerializable \/ ApplyFromSerializable

SpecRoundTrip == InitRoundTrip /\ [][NextRoundTrip]_vars

\* ------------------------------------------------------------ the entry point
\* processHookData(inputData) of the hook processor, on any input text.  A
\* payload is described by what the parsers see in it: json tells whether
\* JSON.parse throws ("invalid"), gives a value that is no object ("value"),
\* or gives an object; context whether session_id, transcript_path and
\* hook_event_name are strings; prompt the prompt text when prompt and cwd are
\* strings; hasTool whether tool_name is a string.
PayloadEvents == {"UserPromptSubmit", "PreToolUse", "PostToolUse", "Stop"}
PayloadPrompts == {"none", "text", "ccguard on", "ccguard bogus"}

Payloads ==
    {[json |-> j, context |-> c, event |-> e, prompt |-> p, hasTool |-> t] :
        j \in {"object"}, c \in BOOLEAN, e \in PayloadEvents,
        p \in PayloadPrompts, t \in BOOLEAN}
    \cup {[json |-> j, context |-> FALSE, event |-> "Stop", prompt |-> "none",
           hasTool |-> FALSE] : j \in {"invalid", "value"}}

\* What fails while the event is handled: command.execute, the read of the
\* guard state, getBaseline, the PRE snapshot or its storage, the POST scan,
\* the revert.
EntryFailures ==
    {"none", "execute", "guardState", "baseline", "snapshot", "store",
     "postScan", "revert"}

\* UserPromptSubmitSchema.safeParse and HookDataSchema.safeParse.
isUserPromptSubmit(payload) ==
    /\ payload.json = "object"
    /\ payload.context
    /\ payload.prompt # "none"
    /\ payload.event = "UserPromptSubmit"

isHookData(payload) ==
    payload.json = "object" /\ payload.context /\ payload.hasTool

EntryResult(decision, reason, m, d, stats, guard) ==
    [thrown |-> FALSE, decision |-> decision, reason |-> reason, m |-> m,
     disk |-> d, stats |-> stats, guard |-> guard, floating |-> None]

EntryThrown(m, d, stats, guard) ==
    [EntryResult("none", "", m, d, stats, guard) EXCEPT !.thrown = TRUE]

\* UserPromptHandler.processUserCommand: None when the input is no command
\* or anything throws, the command's answer otherwise.
processUserCommand(payload, fail, m, d, stats, guard) ==
    IF ~isUserPromptSubmit(payload) \/ payload.prompt = "text" THEN None
    ELSE IF payload.prompt = "ccguard bogus"
    THEN Some(EntryResult("block", "Unknown command", m, d, stats, guard))
    ELSE IF fail = "execute" THEN None
    ELSE Some(EntryResult("block", "CCGuard is now ENABLED", m, d, stats,
                          Some([enabled |-> TRUE])))

\* UserPromptHandler.getDisabledResult over FileStorage.getGuardState, which
\* answers null when the state file cannot be read.
guardEnabled(guard, fail) ==
    LET state == IF fail = "guardState" THEN None ELSE guard
    IN state # None /\ Unwrap(state).enabled

entryPreResult(r, d, stats, guard) ==
    EntryResult(r.decision, r.reason, r.m, d, stats, guard)

entryPre(fail, m, d, stats, guard) ==
    entryPreResult(handlePreToolUse(m, d, "s1", "Write", Some("p1"),
                                    IF fail \in PreFailures THEN fail ELSE "none"),
                   d, stats, guard)

entryPostResult(r, guard) ==
    [EntryResult(r.decision, r.reason, r.m, r.disk, r.stats, guard)
       EXCEPT !.floating = r.floating]

entryPost(fail, m, d, stats, guard) ==
    IF fail = "postScan"
    THEN EntryResult("approve",
                     "Post-operation validation failed, but changes were already applied",
                     m, d, stats, guard)
    ELSE entryPostResult(handlePostToolUse(m, d, stats, "s1", "Write", Some("p1"),
                                           IF fail = "revert" THEN 1 ELSE 0),
                         guard)

\* processHookData once the command handler has answered.
afterCommand(commandResult, payload, fail, m, d, stats, guard) ==
    IF commandResult # None THEN Unwrap(commandResult)
    ELSE IF ~guardEnabled(guard, fail)
    THEN EntryResult("approve", "", m, d, stats, guard)
    ELSE IF ~isHookData(payload)
    THEN EntryResult("approve", "No validation required", m, d, stats, guard)
    ELSE IF payload.event = "UserPromptSubmit"
    THEN IF fail = "baseline" THEN EntryThrown(m, d, stats, guard)
         ELSE EntryResult("approve", "Session initialized",
                          getBaseline(m, d, "s1").m, d, stats, guard)
    ELSE IF payload.event = "PreToolUse"
    THEN entryPre(fail, m, d, stats, guard)
    ELSE IF payload.event = "PostToolUse"
    THEN entryPost(fail, m, d, stats, guard)
    ELSE EntryResult("approve", "No validation required - not a file operation",
                     m, d, stats, guard)

\* The try block of processHookData.
processHookDataBody(payload, fail, m, d, stats, guard) ==
    IF payload.json = "invalid" THEN EntryThrown(m, d, stats, guard)
    ELSE afterCommand(processUserCommand(payload, fail, m, d, stats, guard),
                      payload, fail, m, d, stats, guard)

catchHookErrorRethrow(body) == body

\* The catch block of processHookData.
catchHookError(body) ==
    IF body.thrown
    THEN [body EXCEPT !.thrown = FALSE, !.decision = "block",
                      !.reason = "Error processing hook data. Please try again."]
    ELSE body

processHookData(payload, fail, m, d, stats, guard) ==
    catchHookError(processHookDataBody(payload, fail, m, d, stats, guard))

\* The storage of a session: empty, or holding the PRE records of a Write
\* handled on the empty tree under the configured strategy.
EntryStores ==
    {[k \in Keys |-> None],
     handlePreToolUse([data |-> [k \in Keys |-> None], memB |-> None, memLV |-> None],
                      NoFiles, "s1", "Write", Some("p1"), "none").m.data}

InitEntry ==
    /\ strategy \in {"cumulative", "snapshot"}
    /\ disk \in {NoFiles, [p \in {"p1"} |-> <<"x", "", "y">>]}
    /\ data \in EntryStores
    /\ sessionStats = None
    /\ guardState \in {None, Some([enabled |-> TRUE]), Some([enabled |-> FALSE])}
    /\ memB = None
    /\ memLV = None
    /\ limitType = "hard"
    /\ allowed \in 0..MaxAllowed
    /\ phase = "idle"
    /\ op = NoOp
    /\ opPreDisk = NoFiles
    /\ cmdTotal = [s \in HookSessions |-> None]
    /\ last = LastOf("init", DefaultSession, "none", "")
    /\ events = 0
    /\ ops = 0
    /\ thrIn = None
    /\ thrOut = None
    /\ callIn \in {Some([payload |-> payload, fail |-> fail]) :
                      payload \in Payloads, fail \in EntryFailures}
    /\ callOut = None

applyEntry(r) ==
    /\ callOut' = Some([thrown |-> r.thrown, decision |-> r.decision,
                        reason |-> r.reason])
    /\ \E commit \in (IF r.floating = None THEN {"done"} ELSE CommitOutcomes) :
          SetMgr(settleCommit(r.m, r.floating, commit))
    /\ disk' = r.disk
    /\ sessionStats' = r.stats
    /\ guardState' = r.guard

ApplyEntry ==
    /\ callOut = None
    /\ applyEntry(processHookData(Unwrap(callIn).payload, Unwrap(callIn).fail,
                                  Mgr, disk, sessionStats, guardState))
    /\ UNCHANGED <<Config, phase, op, opPreDisk, cmdTotal, last, events, ops,
                   thrIn, thrOut, callIn>>

NextEntry == ApplyEntry

SpecEntry == InitEntry /\ [][NextEntry]_vars

\* ------------------------------------------------------------ the validator path
\* processHookData(inputData, deps) of processHookData.ts with the Validator
\* as deps.validator: the path the CLI takes when the strategy is not
\* "snapshot".  The input is a well-formed tool event; change is what
\* LocCounter.calculateChange makes of its tool_input, and locked tells
\* whether its file_path is in the list GuardManager.lockFile stores, a list
\* neither processHookData nor Validator.validate reads.
ValidatedEvents == {"PreToolUse", "PostToolUse"}
ValidatedTools == {"Edit", "Bash"}
EnforcementModes == {"session-wide", "per-operation"}

LocChanges ==
    {[linesAdded |-> a, linesRemoved |-> r, netChange |-> a - r] :
        a \in 0..MaxOpLines, r \in 0..1}

StoredStats ==
    {None} \cup
    {Some([totalLinesAdded |-> a, totalLinesRemoved |-> r, netChange |-> a - r,
           operationCount |-> 1]) : a \in 0..MaxSessionLines, r \in {0, 3}}

\* buildContext: guardEnabled is guardState?.enabled ?? true.
contextGuardEnabled(guard) == IF guard = None THEN TRUE ELSE Unwrap(guard).enabled

ValidateResult(decision, reason, stats) ==
    [decision |-> decision, reason |-> reason, stats |-> stats]

validateSessionWideCounted(projectedStats, stats, threshold) ==
    IF validatorDecision(Unwrap(projectedStats).netChange, threshold) = "block"
    THEN ValidateResult("block", "Operation blocked: Net positive LOC change detected!",
                        projectedStats)
    ELSE ValidateResult("approve", "Operation approved", projectedStats)

validateSessionWideCurrent(projectedStats, stats, threshold) ==
    IF stats # None /\ validatorDecision(Unwrap(stats).netChange, threshold) = "block"
    THEN ValidateResult("block", "Operation blocked: Net positive LOC change detected!",
                        stats)
    ELSE ValidateResult("approve", "Operation approved", projectedStats)

\* Validator.validate in session-wide mode, with the projected statistics.
validateSessionWide(projectedStats, stats, threshold) ==
    IF validatorDecision(Unwrap(projectedStats).netChange, threshold) = "block"
    THEN ValidateResult("block", "Operation blocked: Net positive LOC change detected!",
                        stats)
    ELSE ValidateResult("approve", "Operation approved", projectedStats)

validate(enabledInContext, whitelisted, mode, change, stats, threshold) ==
    IF ~enabledInContext THEN ValidateResult("approve", "CCGuard is disabled", stats)
    ELSE IF whitelisted
    THEN ValidateResult("approve", "File is whitelisted - LOC enforcement skipped", stats)
    ELSE IF mode = "per-operation"
    THEN ValidateResult(validatorDecision(change.netChange, threshold),
                        IF change.netChange > threshold
                        THEN "Operation blocked: Net positive LOC change detected!"
                        ELSE "Operation approved",
                        stats)
    ELSE validateSessionWide(
            updateSessionStats(stats, change.linesAdded, change.linesRemoved),
            stats, threshold)

processHookDataWithValidator(i, guard, stats, threshold) ==
    IF ~guardEnabled(guard, "none") THEN ValidateResult("approve", "", stats)
    ELSE IF i.event # "PreToolUse" \/ i.tool \notin FileTools
    THEN ValidateResult("approve", "No validation required", stats)
    ELSE validate(contextGuardEnabled(guard), i.whitelisted, i.mode, i.change,
                  stats, threshold)

InitValidate ==
    /\ disk = NoFiles
    /\ data = [k \in Keys |-> None]
    /\ sessionStats \in StoredStats
    /\ guardState \in {None, Some([enabled |-> TRUE]), Some([enabled |-> FALSE])}
    /\ memB = None
    /\ memLV = None
    /\ strategy = "cumulative"
    /\ limitType = "hard"
    /\ allowed \in {0, MaxAllowance}
    /\ phase = "idle"
    /\ op = NoOp
    /\ opPreDisk = NoFiles
    /\ cmdTotal = [s \in HookSessions |-> None]
    /\ last = LastOf("init", DefaultSession, "none", "")
    /\ events = 0
    /\ ops = 0
    /\ thrIn = None
    /\ thrOut = None
    /\ callIn \in {Some([event |-> e, tool |-> t, change |-> c, whitelisted |-> w,
                         mode |-> md, locked |-> l]) :
                      e \in ValidatedEvents, t \in ValidatedTools, c \in LocChanges,
                      w \in BOOLEAN, md \in EnforcementModes, l \in BOOLEAN}
    /\ callOut = None

applyValidate(r) ==
    /\ callOut' = Some([decision |-> r.decision, reason |-> r.reason,
                        statsBefore |-> sessionStats])
    /\ sessionStats' = r.stats

ApplyValidate ==
    /\ callOut = None
    /\ applyValidate(processHookDataWithValidator(Unwrap(callIn), guardState,
                                                  sessionStats, allowed))
    /\ UNCHANGED <<disk, data, guardState, memB, memLV, Config, phase, op, opPreDisk,
                   cmdTotal, last, events, ops, thrIn, thrOut, callIn>>

NextValidate == ApplyValidate

SpecValidate == InitValidate /\ [][NextValidate]_vars

\* ------------------------------------------------------------ the session statistics
\* One session under the hard policy and cumulative, session-wide enforcement:
\* tool operations handled by the snapshot processor, edits validated by the
\* Validator, and "ccguard reset" commands, in any order.
SessionChanges ==
    {[linesAdded |-> a, linesRemoved |-> r, netChange |-> a - r] :
        a \in {0, 2}, r \in 0..1}

SessionInputs ==
    {[event |-> "PreToolUse", tool |-> "Edit", change |-> c, whitelisted |-> FALSE,
      mode |-> "session-wide", locked |-> FALSE] : c \in SessionChanges}
    \cup
    {[event |-> "PreToolUse", tool |-> "Edit",
      change |-> [linesAdded |-> 2, linesRemoved |-> 0, netChange |-> 2],
      whitelisted |-> w, mode |-> md, locked |-> FALSE] :
        w \in BOOLEAN, md \in EnforcementModes}
    \cup
    {[event |-> "PreToolUse", tool |-> "Bash",
      change |-> [linesAdded |-> 0, linesRemoved |-> 0, netChange |-> 0],
      whitelisted |-> FALSE, mode |-> "session-wide", locked |-> FALSE]}

InitSession ==
    /\ disk \in InitDisks
    /\ data = [k \in Keys |-> None]
    /\ sessionStats = None
    /\ guardState = Some([enabled |-> TRUE])
    /\ memB = None
    /\ memLV = None
    /\ strategy = "cumulative"
    /\ limitType = "hard"
    /\ allowed \in 0..MaxAllowed
    /\ phase = "idle"
    /\ op = NoOp
    /\ opPreDisk = NoFiles
    /\ cmdTotal = [s \in HookSessions |-> None]
    /\ last = LastOf("init", DefaultSession, "none", "")
    /\ events = 0
    /\ ops = 0
    /\ thrIn = None
    /\ thrOut = None
    /\ callIn = None
    /\ callOut = None

\* GuardManager.resetStats, reached by the prompt "ccguard reset".
resetStats == Some(ZeroStats)

ResetCommand(sid) ==
    /\ phase = "idle"
    /\ events < MaxStatEvents
    /\ sessionStats' = resetStats
    /\ last' = LastOf("reset", sid, "block", "Session statistics have been reset.")
    /\ events' = events + 1
    /\ UNCHANGED <<disk, data, guardState, memB, memLV, Config, phase, op,
                   opPreDisk, cmdTotal, Pure>>

applyValidatorEvent(i, r) ==
    /\ sessionStats' = r.stats
    /\ callIn' = Some(i)
    /\ callOut' = Some([decision |-> r.decision, reason |-> r.reason,
                        statsBefore |-> sessionStats])
    /\ last' = LastOf("validate", "s1", r.decision, r.reason)

\* A tool event handled by processHookData with the Validator.
ValidatorEvent(i) ==
    /\ phase = "idle"
    /\ events < MaxStatEvents
    /\ applyValidatorEvent(i, processHookDataWithValidator(i, guardState,
                                                            sessionStats, allowed))
    /\ events' = events + 1
    /\ UNCHANGED <<disk, data, guardState, memB, memLV, Config, phase, op,
                   opPreDisk, cmdTotal, ops, thrIn, thrOut>>

NextSession ==
    \/ \E sid \in HookSessions, filePath \in OpInputs("Write") :
          PreToolUse(sid, "Write", filePath, "none")
    \/ ToolRuns
    \/ \E failAt \in 0..Cardinality(Paths) : PostToolUse(failAt)
    \/ \E sid \in HookSessions : ResetCommand(sid)
    \/ \E i \in SessionInputs : ValidatorEvent(i)

SpecSession == InitSession /\ [][NextSession]_vars

\* ------------------------------------------------------------ the two line counters
\* A text is given by what split('\n') makes of it: a non-empty sequence of
\* pieces, each empty, of white space only, or with code.  <<"">> is the empty
\* text; a text ends with a newline when it has more than one piece and the
\* last one is empty.
Pieces == {"", " ", "x"}
Texts == UNION {[1..n -> Pieces] : n \in 1..MaxSegments}

endsWithNewline(text) == Len(text) > 1 /\ text[Len(text)] = ""
trimmed(piece) == IF piece = " " THEN "" ELSE piece

\* wc -l counts the newlines; one is added for a last line without newline.
wcTotalLines(text) ==
    (Len(text) - 1) + (IF text # <<"">> /\ ~endsWithNewline(text) THEN 1 ELSE 0)

\* grep -c -v '^$': the lines that hold at least one character.
grepNonEmptyLines(text) == Cardinality({i \in 1..Len(text) : text[i] # ""})

\* FileScanner.countLinesWithWc; wcFails: the wc command could not be run and
\* the catch branch counts by hand.
countLinesWithWc(text, ignoreEmptyLines, wcFails) ==
    IF wcFails
    THEN IF ignoreEmptyLines
         THEN Cardinality({i \in 1..Len(text) : trimmed(text[i]) # ""})
         ELSE Len(text)
    ELSE IF ignoreEmptyLines THEN grepNonEmptyLines(text)
    ELSE wcTotalLines(text)

\* LocCounter.countLines.
locCounterCountLines(text, ignoreEmptyLines) ==
    IF text = <<"">> THEN 0
    ELSE IF ignoreEmptyLines
    THEN Cardinality({i \in 1..Len(text) : trimmed(text[i]) # ""})
    ELSE Len(text)

\* The line count FileScanner.scanFile records.  The sources hold two
\* FileScanner classes: one counts with wc and grep, the other hands the text
\* to a LocCounter built with the same setting.
ScannerClasses == {"wc", "locCounter"}

scanFileLocCount(text, ignoreEmptyLines, class, wcFails) ==
    IF class = "wc" THEN countLinesWithWc(text, ignoreEmptyLines, wcFails)
    ELSE locCounterCountLines(text, ignoreEmptyLines)

InitCount ==
    /\ InitIdle
    /\ disk = NoFiles
    /\ callIn \in {Some([text |-> t, ignoreEmptyLines |-> g, class |-> c,
                         wcFails |-> f]) :
                      t \in Texts, g \in BOOLEAN, c \in ScannerClasses,
                      f \in BOOLEAN}
    /\ callOut = None

ApplyCount ==
    /\ callOut = None
    /\ callOut' = Some([scanner |-> scanFileLocCount(Unwrap(callIn).text,
                                                     Unwrap(callIn).ignoreEmptyLines,
                                                     Unwrap(callIn).class,
                                                     Unwrap(callIn).wcFails),
                        counter |-> locCounterCountLines(Unwrap(callIn).text,
                                                         Unwrap(callIn).ignoreEmptyLines)])
    /\ UNCHANGED <<mainVars, thrIn, thrOut, callIn>>

NextCount == ApplyCount

SpecCount == InitCount /\ [][NextCount]_vars

\* ------------------------------------------------------------ ignore rules, scanFiles
\* Paths are sequences of segments; the root directory is /r.
RootDir == <<"r">>

PathSegments == {"r", "..", "..x", "src", "node_modules"}

FilePaths == UNION {[1..n -> PathSegments] : n \in 1..MaxSegments}

\* Segments whose text begins with two dots.
DotDotSegments == {"..", "..x"}

\* path.resolve: a ".." segment removes the segment before it.
RECURSIVE resolveFrom(_, _)
resolveFrom(done, rest) ==
    IF rest = <<>> THEN done
    ELSE IF Head(rest) = ".."
         THEN resolveFrom(IF done = <<>> THEN <<>>
                          ELSE SubSeq(done, 1, Len(done) - 1), Tail(rest))
         ELSE resolveFrom(Append(done, Head(rest)), Tail(rest))

resolve(p) == resolveFrom(<<>>, p)

\* path.relative: drop the common prefix, climb out of what is left of `from`.
RECURSIVE relativeFrom(_, _)
relativeFrom(from, to) ==
    IF from # <<>> /\ to # <<>> /\ Head(from) = Head(to)
    THEN relativeFrom(Tail(from), Tail(to))
    ELSE [i \in 1..Len(from) |-> ".."] \o to

relative(from, to) == relativeFrom(resolve(from), resolve(to))

\* relativePath.startsWith('..') on the joined string.
startsWithDotDot(rel) == rel # <<>> /\ Head(rel) \in DotDotSegments

\* A line of the ignore file: a rule (optionally negated with "!", optionally
\* anchored with a leading "/", its glob a literal name or "*"), a comment
\* or a blank line.
Globs == {"src", "node_modules", "*"}

RuleLines ==
    [kind : {"rule"}, negated : BOOLEAN, anchored : BOOLEAN, glob : Globs]

OtherLines ==
    {[kind |-> "comment", negated |-> FALSE, anchored |-> FALSE, glob |-> ""]}

IgnoreLines == RuleLines \cup OtherLines

MaxIgnoreLines == 2

\* The ignore file: absent (None) or a sequence of lines.
GitignoreFiles ==
    {None} \cup {Some(l) : l \in UNION {[1..n -> IgnoreLines] : n \in 0..MaxIgnoreLines}}

plainRule(name) ==
    [kind |-> "rule", negated |-> FALSE, anchored |-> FALSE, glob |-> name]

addDefaultPatterns ==
    << plainRule("node_modules"), plainRule(".git"), plainRule("dist"),
       plainRule("build"), plainRule(".DS_Store"), plainRule(".env"),
       plainRule(".env.local"), plainRule("coverage"), plainRule(".nyc_output"),
       plainRule(".vscode"), plainRule(".idea") >>

isRuleLine(line) == line.kind = "rule"

loadGitignoreFile(gitignore) ==
    IF gitignore = None THEN <<>> ELSE SelectSeq(Unwrap(gitignore), isRuleLine)

loadPatterns(gitignore) == addDefaultPatterns \o loadGitignoreFile(gitignore)

\* pattern.test(relativePath) for the regular expression gitignoreToRegex
\* builds: "*" gives (^|/)[^/]* or ^[^/]*, which match every string; a name
\* gives (^|/)name($|/), or ^name($|/) when anchored.
patternTest(rule, rel) ==
    IF rule.glob = "*" THEN TRUE
    ELSE IF rule.anchored THEN rel # <<>> /\ Head(rel) = rule.glob
    ELSE \E i \in 1..Len(rel) : rel[i] = rule.glob

RECURSIVE checkPatterns(_, _, _)
checkPatterns(patterns, rel, ignored) ==
    IF patterns = <<>> THEN ignored
    ELSE checkPatterns(Tail(patterns), rel,
                       IF patternTest(Head(patterns), rel)
                       THEN ~Head(patterns).negated ELSE ignored)

isIgnoredRulesOnly(patterns, filePath) ==
    checkPatterns(patterns, relative(RootDir, filePath), FALSE)

isIgnored(patterns, filePath) ==
    IF startsWithDotDot(relative(RootDir, filePath)) THEN TRUE
    ELSE checkPatterns(patterns, relative(RootDir, filePath), FALSE)

\* What a listed path is on disk: nothing, a directory, a regular file, a
\* regular file that cannot be read, or an entry that disappears between
\* existsSync and statSync.
FileKinds == {"missing", "directory", "file", "unreadable", "vanished"}

ScanPaths ==
    { <<"r", "src">>, <<"r", "logo.png">>, <<"r", "node_modules", "src">>,
      <<"src">>, <<"r", "..", "src">> }

ScanTargets == {resolve(p) : p \in ScanPaths}

FileSystems == [ScanTargets -> FileKinds]

MaxListed == 2

ScanLists == UNION {[1..n -> ScanPaths] : n \in 0..MaxListed}

ScanGitignores ==
    { None,
      Some(<< [kind |-> "rule", negated |-> TRUE, anchored |-> FALSE,
               glob |-> "node_modules"] >>),
      Some(<< [kind |-> "rule", negated |-> FALSE, anchored |-> TRUE,
               glob |-> "src"] >>) }

BinaryNames == {"logo.png"}

isBinaryFile(filePath) == filePath[Len(filePath)] \in BinaryNames

\* The try block of scanFile: thrown tells whether it ended by an exception.
scanFileTry(fs, filePath) ==
    IF fs[resolve(filePath)] = "missing" THEN [thrown |-> FALSE, value |-> None]
    ELSE IF fs[resolve(filePath)] = "vanished" THEN [thrown |-> TRUE, value |-> None]
    ELSE IF fs[resolve(filePath)] = "directory" THEN [thrown |-> FALSE, value |-> None]
    ELSE IF isBinaryFile(filePath) THEN [thrown |-> FALSE, value |-> None]
    ELSE IF fs[resolve(filePath)] = "unreadable" THEN [thrown |-> TRUE, value |-> None]
    ELSE [thrown |-> FALSE, value |-> Some([path |-> filePath])]

scanFileGuarded(fs, filePath) ==
    IF scanFileTry(fs, filePath).thrown THEN None
    ELSE scanFileTry(fs, filePath).value

\* scanFiles: the map built by the loop, as the set of its keys' records.
scanFilesUnfiltered(patterns, fs, filePaths) ==
    [thrown |-> FALSE,
     files |-> {p \in SeqToSet(filePaths) : scanFileGuarded(fs, p) # None}]

scanFilesListed(patterns, fs, filePaths) ==
    [thrown |-> FALSE,
     files |-> {p \in SeqToSet(filePaths) :
                  ~isIgnored(patterns, p) /\ scanFileGuarded(fs, p) # None}]

InitScan ==
    /\ InitIdle
    /\ disk = NoFiles
    /\ \/ \E p \in FilePaths, g \in GitignoreFiles :
             callIn = Some([op |-> "isIgnored", filePaths |-> <<p>>,
                            gitignore |-> g,
                            fs |-> [t \in ScanTargets |-> "missing"]])
       \/ \E l \in ScanLists, g \in ScanGitignores, f \in FileSystems :
             callIn = Some([op |-> "scanFiles", filePaths |-> l,
                            gitignore |-> g, fs |-> f])
    /\ callOut = None

ApplyIsIgnored ==
    /\ callIn # None /\ callOut = None
    /\ Unwrap(callIn).op = "isIgnored"
    /\ callOut' = Some([ignored |-> isIgnored(loadPatterns(Unwrap(callIn).gitignore),
                                              Unwrap(callIn).filePaths[1]),
                        thrown |-> FALSE, files |-> {}])
    /\ UNCHANGED <<mainVars, thrIn, thrOut, callIn>>

ApplyScanFiles ==
    /\ callIn # None /\ callOut = None
    /\ Unwrap(callIn).op = "scanFiles"
    /\ callOut' = Some([ignored |-> FALSE,
                        thrown |-> scanFilesListed(loadPatterns(Unwrap(callIn).gitignore),
                                                   Unwrap(callIn).fs,
                                                   Unwrap(callIn).filePaths).thrown,
                        files |-> scanFilesListed(loadPatterns(Unwrap(callIn).gitignore),
                                                  Unwrap(callIn).fs,
                                                  Unwrap(callIn).filePaths).files])
    /\ UNCHANGED <<mainVars, thrIn, thrOut, callIn>>

NextScan == ApplyIsIgnored \/ ApplyScanFiles

SpecScan == InitScan /\ [][NextScan]_vars

\* ------------------------------------------------------------ direct manager calls
\* One SnapshotManager instance driven through its public methods for session
\* "s1", as its unit tests drive it, while the project files change and another
\* process of the same session writes its own commit.  ops counts the steps.
NoCall == [kind |-> "none", totalLoc |-> 0, wrote |-> FALSE, stale |-> FALSE,
           check |-> NoCheck, allowance |-> 0, prevKind |-> "none", prevTotal |-> 0,
           ret |-> None]

CallOf(kind) ==
    [NoCall EXCEPT !.kind = kind,
                   !.prevKind = IF callOut = None THEN "none" ELSE Unwrap(callOut).kind,
                   !.prevTotal = IF callOut = None THEN 0 ELSE Unwrap(callOut).totalLoc]

ManagerIdle ==
    UNCHANGED <<sessionStats, guardState, Config, phase, op, opPreDisk, cmdTotal,
                last, events, thrIn, thrOut, callIn>>

InitManager ==
    /\ InitIdle
    /\ disk \in AllDisks
    /\ callIn = None
    /\ callOut = None

CallInitializeBaseline ==
    /\ ops < MaxCalls
    /\ LET r == initializeBaseline(Mgr, disk, "s1")
       IN /\ SetMgr(r.m)
          /\ callOut' = Some([CallOf("initializeBaseline") EXCEPT
                                !.ret = Some(r.ret)])
    /\ ops' = ops + 1
    /\ UNCHANGED disk
    /\ ManagerIdle

CallGetBaseline ==
    /\ ops < MaxCalls
    /\ LET r == getBaseline(Mgr, disk, "s1")
       IN /\ SetMgr(r.m)
          /\ callOut' = Some([CallOf("getBaseline") EXCEPT
                                !.totalLoc = r.ret.totalLoc, !.ret = Some(r.ret)])
    /\ ops' = ops + 1
    /\ UNCHANGED disk
    /\ ManagerIdle

CallTakeOperationSnapshot(affectedFiles) ==
    /\ ops < MaxCalls
    /\ LET r == takeOperationSnapshot(Mgr, disk, "s1", affectedFiles)
           persisted == getCurrentValidLoc(Mgr, "s1")
       IN /\ SetMgr(r.m)
          /\ callOut' = Some([CallOf("takeOperationSnapshot") EXCEPT
                                !.totalLoc = r.ret.totalLoc,
                                !.ret = Some(r.ret),
                                !.wrote = correctionNeeded(persisted, r.ret.totalLoc),
                                !.stale = (/\ persisted # None
                                           /\ Unwrap(persisted)
                                                # calculateTotalLoc(scanProject(disk)))])
    /\ ops' = ops + 1
    /\ UNCHANGED disk
    /\ ManagerIdle

\* takePostOperationSnapshot followed by updateLastValidSnapshot: the commit of
\* an approved operation.
CallCommit(affectedFiles) ==
    /\ ops < MaxCalls
    /\ LET post == takePostOperationSnapshot(Mgr, disk, "s1", affectedFiles)
       IN /\ SetMgr(updateLastValidSnapshot(post.m, post.ret))
          /\ callOut' = Some([CallOf("commit") EXCEPT
                                !.totalLoc = post.ret.totalLoc,
                                !.ret = Some(post.ret)])
    /\ ops' = ops + 1
    /\ UNCHANGED disk
    /\ ManagerIdle

CallCheckThreshold(allowedPositiveLines) ==
    /\ ops < MaxCalls
    /\ LET cs == MakeSnapshot("s1", scanProject(disk), FALSE)
           r == checkThreshold(Mgr, disk, "s1", cs, allowedPositiveLines)
       IN /\ SetMgr(r.m)
          /\ callOut' = Some([CallOf("checkThreshold") EXCEPT
                                !.totalLoc = cs.totalLoc, !.check = r.ret,
                                !.allowance = allowedPositiveLines])
    /\ ops' = ops + 1
    /\ UNCHANGED disk
    /\ ManagerIdle

\* The project files change outside the manager.
FileChange ==
    /\ ops < MaxCalls
    /\ disk' \in AllDisks \ {disk}
    /\ callOut' = Some(CallOf("fileChange"))
    /\ ops' = ops + 1
    /\ UNCHANGED <<data, memB, memLV>>
    /\ ManagerIdle

\* Another process of the session finishes an operation it validated on the
\* tree seen and writes its commit over ours: the last write wins.
OtherProcessCommit(seen) ==
    /\ ops < MaxCalls
    /\ data[Key("baseline", "s1")] # None
    /\ data' = updateLastValidSnapshot(Mgr, MakeSnapshot("s1", scanProject(seen), FALSE)).data
    /\ callOut' = Some(CallOf("otherProcessCommit"))
    /\ ops' = ops + 1
    /\ UNCHANGED <<disk, memB, memLV>>
    /\ ManagerIdle

\* The next call is made on a new SnapshotManager over the same storage.
NewInstance ==
    /\ memB # None \/ memLV # None
    /\ memB' = None
    /\ memLV' = None
    /\ UNCHANGED <<disk, data, ops, callOut>>
    /\ ManagerIdle

NextManager ==
    \/ CallInitializeBaseline
    \/ CallGetBaseline
    \/ \E affectedFiles \in {<<>>, <<"p1">>} : CallTakeOperationSnapshot(affectedFiles)
    \/ \E affectedFiles \in {<<>>, <<"p1">>, <<"p2">>} : CallCommit(affectedFiles)
    \/ \E a \in 0..MaxAllowed : CallCheckThreshold(a)
    \/ FileChange
    \/ \E seen \in AllDisks : OtherProcessCommit(seen)
    \/ NewInstance

SpecManager == InitManager /\ [][NextManager]_vars

\* ------------------------------------------------------------ properties
\* p exists in both trees with the same content, or in neither.
SameAt(d1, d2, p) ==
    (p \in DOMAIN d1) = (p \in DOMAIN d2) /\ (p \in DOMAIN d1 => d1[p] = d2[p])

HandledPost == last.kind = "POST" /\ isEnabled

\* The message templates of the POST handlers: which of them announce the
\* operation as reverted, which carry revertResult.error.
saysReverted(reason) ==
    reason \in {"Operation reverted: LOC threshold exceeded!",
                "Operation reverted: LOC threshold exceeded! Failed to automatically revert"}

carriesRevertError(reason) ==
    reason \in {"LOC threshold exceeded. Failed to revert",
                "Operation reverted: LOC threshold exceeded! Failed to automatically revert"}

\* C1: every PreToolUse handled while the guard is enabled is answered approve,
\* in both strategies, for every tool and project state, also when taking or
\* persisting the pre-operation snapshot fails.
C1_PreAlwaysApproved ==
    (last.kind = "PRE" /\ isEnabled) => last.decision = "approve"

C1_Witness ==
    /\ last.kind = "PRE"
    /\ isEnabled
    /\ isSnapshotMode
    /\ last.reason = "Pre-operation snapshot failed, but allowing operation"

\* C2: whenever a PostToolUse with a stored pre-operation snapshot is blocked
\* because the threshold was exceeded under the hard limit (and the revert, if
\* run, did not fail), every file the operation created, modified or deleted
\* is back in its pre-operation state.
C2_BlockedMeansRestored ==
    (/\ HandledPost
     /\ last.decision = "block"
     /\ last.exceeded
     /\ limitType = "hard"
     /\ last.hadPre
     /\ (last.revertCalled => last.revertOk))
    => \A p \in Paths :
          ~SameAt(last.diskBefore, last.opPreDisk, p) => SameAt(disk, last.opPreDisk, p)

\* C3: the threshold decision is a strict greater-than: for every reference
\* total R, current total C and allowance A the check reports exceeded exactly
\* when C - R > A, in SnapshotManager.checkThreshold, in the cumulative POST
\* handler and in the Validator.
C3_StrictThreshold ==
    thrOut # None =>
       LET i == Unwrap(thrIn)
           o == Unwrap(thrOut)
       IN /\ o.check.exceeded = (i.C - i.R > i.A)
          /\ o.check.delta = i.C - i.R
          /\ o.projected = (i.C - i.R > i.A)
          /\ (o.validator = "block") = (i.C - i.R > i.A)

C3_Witness ==
    /\ thrOut # None
    /\ Unwrap(thrIn).A > 0
    /\ Unwrap(thrIn).C - Unwrap(thrIn).R = Unwrap(thrIn).A
    /\ ~Unwrap(thrOut).check.exceeded
    /\ Unwrap(thrOut).validator = "approve"

\* C4 (amended): in the snapshot strategy a PostToolUse is judged exceeded
\* exactly when a baseline threshold was recorded for its session before the
\* check and the post-operation snapshot total is greater than that recorded
\* total; allowedPositiveLines plays no part.
C4_ExceededIffAboveBaseline ==
    [][(/\ phase = "post"
        /\ isEnabled
        /\ isSnapshotMode
        /\ last'.kind = "POST")
       => /\ last'.checked
          /\ last'.exceeded =
               (/\ data[Key("threshold", op.sid)] # None
                /\ last'.check.current
                     > Unwrap(data[Key("threshold", op.sid)]).totalLoc)
          /\ (op.tool \notin FileTools
                => last'.check.current = calculateTotalLoc(scanProject(disk)))]_vars

\* An operation that leaves the project one line above the baseline, with an
\* allowance of one line, is judged exceeded and blocked.
C4_Witness ==
    /\ HandledPost
    /\ isSnapshotMode
    /\ allowed = 1
    /\ last.hadPre
    /\ last.check.current = last.check.baseline + 1
    /\ last.exceeded
    /\ limitType = "hard"
    /\ last.decision = "block"

\* C4 as stated: exceeded exactly when
\* (post-operation total - baseline total) > allowedPositiveLines.
C4_ExceededIffAboveAllowance ==
    (HandledPost /\ isSnapshotMode /\ last.checked)
    => (last.exceeded = (last.check.current - last.check.baseline > allowed))

\* C5: in the snapshot strategy a recorded baseline threshold changes only
\* through an explicit checkpoint (takeSnapshot / the snapshot command); no PRE,
\* POST, prompt, revert or self-correction changes it.
C5_ThresholdFixed ==
    [][\A s \in Sessions :
          (/\ isSnapshotMode
           /\ data[Key("threshold", s)] # None
           /\ data'[Key("threshold", s)] # data[Key("threshold", s)])
          => last'.kind \in {"takeSnapshot", "snapshotCommand"}]_vars

\* An operation above the recorded baseline was rejected and the threshold is
\* still the recorded one.
C5_Witness ==
    /\ HandledPost
    /\ isSnapshotMode
    /\ last.decision = "block"
    /\ last.check.current > last.check.baseline
    /\ data[Key("threshold", last.sid)] # None
    /\ Unwrap(data[Key("threshold", last.sid)]).totalLoc = last.check.baseline

\* C6: after the snapshot command was processed in session s, the baseline
\* threshold used by a later snapshot-mode POST check of s is the total that
\* command measured.
C6_CommandSetsThreshold ==
    (HandledPost /\ isSnapshotMode /\ last.checked /\ cmdTotal[last.sid] # None)
    => last.check.baseline = Unwrap(cmdTotal[last.sid])

C8_CreatedFileReverted ==
    \A p \in Paths :
       (/\ HandledPost
        /\ last.op.tool \notin FileTools
        /\ last.hadPre
        /\ limitType = "hard"
        /\ last.exceeded
        /\ (last.revertCalled => last.revertOk)
        /\ p \notin DOMAIN last.opPreDisk
        /\ p \in DOMAIN last.diskBefore)
       => (last.decision = "block" /\ p \notin DOMAIN disk)

C10_RevertAtomic ==
    (last.kind = "POST" /\ last.revertCalled /\ ~last.revertOk)
    => \A p \in SeqToSet(last.revertPaths) : SameAt(disk, last.diskBefore, p)

\* After a successful revertToSnapshot(P, S) leaving the tree d: a path of P
\* with a record in S rescans to that record's line count and hash, a path of
\* P without a record in S does not exist.
RevertExact(d, P, S) ==
    \A p \in SeqToSet(P) :
       IF p \in DOMAIN S.files
       THEN /\ p \in DOMAIN d
            /\ scanFile(p, d[p]).locCount = S.files[p].locCount
            /\ scanFile(p, d[p]).hash = S.files[p].hash
       ELSE p \notin DOMAIN d

\* C11: after revertToSnapshot(P, S) returns success, every path of P with a
\* record in S rescans to the line count and hash of that record and every
\* path of P without a record in S does not exist, for the RevertManager of
\* RevertManager.ts and for the RevertManager of SnapshotManager.ts.
C11_RevertExact ==
    callOut # None =>
       LET i == Unwrap(callIn)
           o == Unwrap(callOut)
       IN /\ o.content.success => RevertExact(o.content.disk, i.affectedFiles, i.snapshot)
          /\ o.git.success => RevertExact(o.git.disk, i.affectedFiles, i.snapshot)

\* The same for the RevertManager of RevertManager.ts alone.
C11_ContentRevertExact ==
    callOut # None =>
       LET i == Unwrap(callIn)
           o == Unwrap(callOut)
       IN o.content.success => RevertExact(o.content.disk, i.affectedFiles, i.snapshot)
\* C12: when a step of the revert fails, revertToSnapshot returns success =
\* false to the POST handler, which answers block with the underlying error in
\* its message and does not announce the operation as reverted.
C12_RevertFailureReported ==
    (HandledPost /\ last.revertCalled /\ ~last.revertOk)
    => /\ last.decision = "block"
       /\ carriesRevertError(last.reason)
       /\ ~saysReverted(last.reason)

\* The part that holds in both strategies: block, with the underlying error.
C12_RevertFailureBlocked ==
    (HandledPost /\ last.revertCalled /\ ~last.revertOk)
    => (last.decision = "block" /\ carriesRevertError(last.reason))
\* C13: when a POST is approved because the threshold is not exceeded, then as
\* the decision is returned the post-operation snapshot is committed: the
\* persisted current total of the session is the post-operation total and the
\* durable copy of the last-valid snapshot is that snapshot.
C13_CommittedBeforeApprove ==
    (HandledPost /\ last.decision = "approve" /\ last.checked /\ ~last.exceeded)
    => /\ last.postTotal # None
       /\ data[Key("current", last.sid)] = Some([totalLoc |-> Unwrap(last.postTotal)])
       /\ data[Key("lastvalid", last.sid)] # None
       /\ Unwrap(data[Key("lastvalid", last.sid)]).snapshot.totalLoc
             = Unwrap(last.postTotal)

\* The snapshot-mode handler awaits the commit.
C13_SnapshotModeCommitted ==
    isSnapshotMode => C13_CommittedBeforeApprove
\* C14: POST handling replaces the last-valid snapshot and the persisted
\* current total of the session only with a snapshot whose threshold check was
\* not exceeded, and a blocked POST leaves the persisted current total, the
\* last-valid snapshot (pointer and durable copy) and the session statistics
\* exactly as they were before it.
C14_BlockedLeavesState ==
    [][(/\ phase = "post"
        /\ isEnabled
        /\ last'.kind = "POST")
       => /\ (\/ data'[Key("current", op.sid)] # data[Key("current", op.sid)]
              \/ data'[Key("lastvalid", op.sid)] # data[Key("lastvalid", op.sid)]
              \/ memLV' # memLV)
             => (last'.checked /\ ~last'.exceeded /\ last'.decision = "approve")
          /\ last'.decision = "block"
             => /\ data'[Key("current", op.sid)] = data[Key("current", op.sid)]
                /\ data'[Key("lastvalid", op.sid)] = data[Key("lastvalid", op.sid)]
                /\ memLV' = memLV
                /\ sessionStats' = sessionStats]_vars

\* A second operation was blocked and its revert failed, so the tree holds the
\* rejected state, while the committed state is still the first operation's.
C14_Witness ==
    /\ HandledPost
    /\ last.decision = "block"
    /\ last.revertCalled
    /\ ~last.revertOk
    /\ sessionStats # None
    /\ data[Key("lastvalid", last.sid)] # None
    /\ data[Key("current", last.sid)] # None
    /\ last.postTotal # None
    /\ Unwrap(data[Key("lastvalid", last.sid)]).snapshot.totalLoc # Unwrap(last.postTotal)
    /\ Unwrap(data[Key("current", last.sid)]).totalLoc # Unwrap(last.postTotal)
\* The tree a snapshot's file map describes.
snapshotTree(files) == [p \in DOMAIN files |-> files[p].content]

\* The affected-path list the POST handler of the operation in flight uses.
postAffected ==
    IF isSnapshotMode THEN getAffectedFiles(op.tool, op.filePath)
    ELSE IF data[Key("pre_latest", op.sid)] # None
         THEN Unwrap(data[Key("pre_latest", op.sid)]).affectedFiles
         ELSE <<>>

\* No path outside the affected list differs between the tree and files.
othersUnchanged(d, files, affected) ==
    \A p \in Paths \ SeqToSet(affected) : SameAt(d, snapshotTree(files), p)

\* C15: for a non-empty affected-path list the post-operation snapshot has the
\* true project total whenever no file outside the list changed since the
\* session's most recently committed last-valid snapshot, also when a fresh
\* instance handles the POST.
C15_PostSnapshotTrueTotal ==
    [][(/\ phase = "post"
        /\ isEnabled
        /\ last'.kind = "POST"
        /\ last'.postTotal # None
        /\ Len(postAffected) > 0
        /\ data[Key("lastvalid", op.sid)] # None
        /\ othersUnchanged(disk,
              fromSerializable(Unwrap(data[Key("lastvalid", op.sid)]).snapshot).files,
              postAffected))
       => Unwrap(last'.postTotal) = calculateTotalLoc(scanProject(disk))]_vars

\* The same for the instance that made the commit and still holds it.
C15_SameInstanceTrueTotal ==
    [][(/\ phase = "post"
        /\ isEnabled
        /\ last'.kind = "POST"
        /\ last'.postTotal # None
        /\ Len(postAffected) > 0
        /\ memLV # None
        /\ othersUnchanged(disk, Unwrap(memLV).files, postAffected))
       => Unwrap(last'.postTotal) = calculateTotalLoc(scanProject(disk))]_vars
\* The PRE record the handler stored for session sid.
storedPre(sid) ==
    data[Key(IF isSnapshotMode THEN "pre_minimal" ELSE "pre_latest", sid)]

\* A PRE whose pre-operation snapshot step returned and was stored.
SnapshotStepDone ==
    /\ last.kind = "PRE"
    /\ isEnabled
    /\ last.reason = "Operation approved - will validate after completion"

\* C16: after the pre-operation snapshot step returned for a session with a
\* persisted current total, the returned snapshot's totalLoc, the persisted
\* current total and the full-scan total of the project are equal, whatever
\* the tool's affected paths and whatever changes, failed reverts, lost
\* commits or restarts came before.
C16_PreTotalsAgree ==
    (SnapshotStepDone /\ data[Key("current", last.sid)] # None)
    => /\ storedPre(last.sid) # None
       /\ Unwrap(storedPre(last.sid)).snapshot.totalLoc
             = calculateTotalLoc(scanProject(disk))
       /\ Unwrap(data[Key("current", last.sid)]).totalLoc
             = calculateTotalLoc(scanProject(disk))

\* The second operation's PRE, handled by a fresh instance after the first
\* operation changed the total and its commit was lost, reads the new total
\* and not the baseline's.
C16_Witness ==
    /\ SnapshotStepDone
    /\ ops = 2
    /\ memLV = None
    /\ data[Key("lastvalid", last.sid)] = None
    /\ data[Key("threshold", last.sid)] # None
    /\ data[Key("current", last.sid)] # None
    /\ sessionStats # None
    /\ Unwrap(data[Key("current", last.sid)]).totalLoc
          = calculateTotalLoc(scanProject(disk))
    /\ Unwrap(data[Key("current", last.sid)]).totalLoc
          # Unwrap(data[Key("threshold", last.sid)]).totalLoc
\* C17: when the pre-operation snapshot step is called twice in a row with no
\* file change in between, both calls return the same totalLoc and the second
\* call corrects nothing: it does not write the persisted current total.
C17_SecondCallNoCorrection ==
    (/\ callOut # None
     /\ Unwrap(callOut).kind = "takeOperationSnapshot"
     /\ Unwrap(callOut).prevKind = "takeOperationSnapshot")
    => /\ Unwrap(callOut).totalLoc = Unwrap(callOut).prevTotal
       /\ ~Unwrap(callOut).wrote

\* The first of the two calls found a stale persisted total: the second call
\* comes right after a correction.
C17_Witness ==
    /\ callOut # None
    /\ Unwrap(callOut).kind = "takeOperationSnapshot"
    /\ Unwrap(callOut).prevKind = "takeOperationSnapshot"
    /\ ops = MaxCalls
    /\ data[Key("current", "s1")] # None
    /\ data[Key("threshold", "s1")] # None
    /\ Unwrap(data[Key("current", "s1")]).totalLoc
          # Unwrap(data[Key("threshold", "s1")]).totalLoc
\* C18: when a race between two processes of a session has left a stale value
\* in the persisted current total (the last write won), the next pre-operation
\* snapshot step detects the mismatch, rewrites the value, and leaves the
\* persisted current total equal to the true project total.
C18_StaleTotalRepaired ==
    (/\ callOut # None
     /\ Unwrap(callOut).kind = "takeOperationSnapshot"
     /\ Unwrap(callOut).stale)
    => /\ Unwrap(callOut).wrote
       /\ data[Key("current", "s1")]
            = Some([totalLoc |-> calculateTotalLoc(scanProject(disk))])
       /\ Unwrap(callOut).totalLoc = calculateTotalLoc(scanProject(disk))

\* Our commit was overwritten by the other process's and then repaired.
C18_Witness ==
    /\ callOut # None
    /\ Unwrap(callOut).kind = "takeOperationSnapshot"
    /\ Unwrap(callOut).prevKind = "otherProcessCommit"
    /\ Unwrap(callOut).stale
    /\ memLV # None
    /\ data[Key("lastvalid", "s1")] # None
    /\ data[Key("current", "s1")] # None
    /\ Unwrap(data[Key("lastvalid", "s1")]).snapshot.totalLoc
          # calculateTotalLoc(scanProject(disk))
    /\ Unwrap(data[Key("current", "s1")]).totalLoc = calculateTotalLoc(scanProject(disk))
\* A checkThreshold call on the full scan of the tree, for a session with a
\* stored baseline.
CheckedThreshold ==
    /\ callOut # None
    /\ Unwrap(callOut).kind = "checkThreshold"
    /\ data[Key("baseline", "s1")] # None

\* C19 (amended): checkThreshold measures against the session baseline: the
\* baseline value it reports is the total of the baseline snapshot getBaseline
\* returns, which approved operations do not move, delta is the current
\* snapshot's total minus that value, and exceeded is delta > allowance.
C19_BaselineIsSessionBaseline ==
    CheckedThreshold
    => LET c == Unwrap(callOut).check
           b == Unwrap(data[Key("baseline", "s1")]).totalLoc
       IN /\ c.baseline = b
          /\ c.current = Unwrap(callOut).totalLoc
          /\ c.delta = c.current - b
          /\ c.exceeded = (c.delta > Unwrap(callOut).allowance)

\* A check made after a commit that moved the last-valid total away from the
\* baseline, by the instance that holds the commit.
C19_Witness ==
    /\ CheckedThreshold
    /\ Unwrap(callOut).prevKind = "commit"
    /\ memLV # None
    /\ Unwrap(memLV).totalLoc = Unwrap(callOut).prevTotal
    /\ data[Key("lastvalid", "s1")] # None
    /\ Unwrap(data[Key("lastvalid", "s1")]).snapshot.totalLoc = Unwrap(callOut).prevTotal
    /\ Unwrap(callOut).check.baseline # Unwrap(callOut).prevTotal
    /\ Unwrap(callOut).check.exceeded

\* C19 as stated: the baseline value reported is the total of the most
\* recently committed last-valid snapshot.
C19_BaselineIsLastValid ==
    (CheckedThreshold /\ data[Key("lastvalid", "s1")] # None)
    => LET c == Unwrap(callOut).check
           lv == Unwrap(data[Key("lastvalid", "s1")]).snapshot.totalLoc
       IN /\ c.baseline = lv
          /\ c.delta = c.current - lv
\* C20: a snapshot-mode check for a session that never had a baseline threshold
\* recorded records one from the current project state and reports not
\* exceeded, so the POST is approved; a recorded threshold never disappears.
C20_ThresholdInitialised ==
    [][/\ (/\ phase = "post"
            /\ isEnabled
            /\ isSnapshotMode
            /\ last'.kind = "POST"
            /\ data[Key("threshold", op.sid)] = None)
           => /\ last'.checked
              /\ ~last'.exceeded
              /\ last'.decision = "approve"
              /\ data'[Key("threshold", op.sid)]
                    = Some([totalLoc |-> calculateTotalLoc(scanProject(disk))])
       /\ \A s \in Sessions :
             data[Key("threshold", s)] # None => data'[Key("threshold", s)] # None]_vars

\* The POST of a shell command whose PRE left nothing behind: the threshold
\* was recorded by the check itself, from the tree the command produced.
C20_Witness ==
    /\ HandledPost
    /\ isSnapshotMode
    /\ last.op.tool = "Bash"
    /\ ~last.hadPre
    /\ ops = 1
    /\ events = 0
    /\ last.decision = "approve"
    /\ data[Key("threshold", last.sid)] # None
    /\ Unwrap(data[Key("threshold", last.sid)]).totalLoc >= 2
    /\ Unwrap(data[Key("threshold", last.sid)]).totalLoc
          = calculateTotalLoc(scanProject(disk))
\* The baseline the instance holds for "s1", else the stored one.
existingBaseline ==
    IF memB # None /\ Unwrap(memB).sessionId = "s1" THEN memB
    ELSE IF data[Key("baseline", "s1")] # None
         THEN Some(fromSerializable(Unwrap(data[Key("baseline", "s1")])))
         ELSE None

\* C21: when a baseline of the session exists, in memory or in storage,
\* getBaseline returns it as it is, whatever the project tree has become, and
\* writes nothing to storage; a repeated call returns the same snapshot and
\* the persisted baseline, threshold and current total stay as they were.
C21_GetBaselineReadOnly ==
    [][(/\ callOut' # None
        /\ Unwrap(callOut').kind = "getBaseline"
        /\ ops' = ops + 1
        /\ existingBaseline # None)
       => /\ Unwrap(callOut').ret = existingBaseline
          /\ data' = data
          /\ (callOut # None /\ Unwrap(callOut).kind = "getBaseline"
                => Unwrap(callOut').ret = Unwrap(callOut).ret)]_vars

\* A second call in a row, made on a tree that no longer has the baseline's
\* total, by an instance that had to load the baseline from storage.
C21_Witness ==
    /\ callOut # None
    /\ Unwrap(callOut).kind = "getBaseline"
    /\ Unwrap(callOut).prevKind = "getBaseline"
    /\ memLV = None
    /\ Unwrap(callOut).ret = existingBaseline
    /\ Unwrap(callOut).totalLoc # calculateTotalLoc(scanProject(disk))
    /\ data[Key("current", "s1")] # None

\* ------------------------------------------------------------ C22..C24
RECURSIVE SumDelta(_, _)
SumDelta(details, S) ==
    IF S = {} THEN 0
    ELSE LET p == CHOOSE q \in S : TRUE
         IN details[p].delta + SumDelta(details, S \ {p})

Compared == callIn # None /\ callOut # None /\ "before" \in DOMAIN Unwrap(callIn)

\* C22: the total delta of a comparison is the after snapshot's total minus
\* the before snapshot's total, and it is also the sum of the per-file
\* deltas recorded in the details.
C22_DeltaAdditive ==
    Compared =>
        LET i == Unwrap(callIn)
            diff == Unwrap(callOut)
        IN /\ diff.locDelta = i.after.totalLoc - i.before.totalLoc
           /\ diff.locDelta = SumDelta(diff.details, DOMAIN diff.details)

\* A comparison with a file removed, a file modified to fewer lines, and so a
\* negative total.
C22_Witness ==
    /\ Compared
    /\ Unwrap(callOut).removed # {}
    /\ Unwrap(callOut).modified # {}
    /\ Unwrap(callOut).locDelta < 0
    /\ \E p \in Unwrap(callOut).modified : Unwrap(callOut).details[p].delta < 0

beforePaths == DOMAIN Unwrap(callIn).before.files
afterPaths == DOMAIN Unwrap(callIn).after.files
symmetricDifference(A, B) == (A \ B) \cup (B \ A)

PairwiseDisjoint(diff) ==
    /\ diff.added \cap diff.removed = {}
    /\ diff.added \cap diff.modified = {}
    /\ diff.removed \cap diff.modified = {}

\* C23: in every comparison the added, removed and modified path sets are
\* pairwise disjoint; added and removed together are the symmetric difference
\* of the two snapshots' path sets, and modified holds the paths of both
\* snapshots whose hashes differ.
C23_DiffPartition ==
    Compared =>
        LET i == Unwrap(callIn)
            diff == Unwrap(callOut)
        IN /\ PairwiseDisjoint(diff)
           /\ diff.added = afterPaths \ beforePaths
           /\ diff.removed = beforePaths \ afterPaths
           /\ diff.added \cup diff.removed
                = symmetricDifference(beforePaths, afterPaths)
           /\ diff.modified
                = {p \in beforePaths \cap afterPaths :
                     i.after.files[p].hash # i.before.files[p].hash}

\* A comparison with one file added and another modified without a change of
\* its line count.
C23_Witness ==
    /\ Compared
    /\ Unwrap(callOut).added # {}
    /\ \E p \in Unwrap(callOut).modified : Unwrap(callOut).details[p].delta = 0

\* C23 as stated: the three sets are pairwise disjoint and their union is the
\* symmetric difference of the two path sets.
C23_UnionIsSymmetricDifference ==
    Compared =>
        LET diff == Unwrap(callOut)
        IN /\ PairwiseDisjoint(diff)
           /\ diff.added \cup diff.removed \cup diff.modified
                = symmetricDifference(beforePaths, afterPaths)

\* The case of a path and what the comparison must report for it.
caseOf(i, p) ==
    IF p \notin afterPaths THEN "removed"
    ELSE IF p \notin beforePaths THEN "added"
    ELSE IF i.after.files[p].hash # i.before.files[p].hash THEN "modified"
    ELSE "same"

reportedAs(diff, p) ==
    {c \in {"added", "removed", "modified"} : p \in diff[c]}

\* C24: each path of either snapshot falls in exactly one case: only in
\* before, it is removed with delta minus its before count; only in after, it
\* is added with delta its after count; in both with different hashes, it is
\* modified with delta after minus before; in both with the same hash, it is
\* not reported, whatever its lastModified; and the details have an entry
\* for exactly the added, removed and modified paths.
C24_OneCasePerPath ==
    Compared =>
        LET i == Unwrap(callIn)
            diff == Unwrap(callOut)
        IN /\ DOMAIN diff.details = diff.added \cup diff.removed \cup diff.modified
           /\ \A p \in beforePaths \cup afterPaths :
                 LET c == caseOf(i, p)
                 IN /\ reportedAs(diff, p) = (IF c = "same" THEN {} ELSE {c})
                    /\ c = "same" => p \notin DOMAIN diff.details
                    /\ c = "removed" =>
                          diff.details[p] = [before |-> i.before.files[p].locCount,
                                             after |-> 0,
                                             delta |-> 0 - i.before.files[p].locCount]
                    /\ c = "added" =>
                          diff.details[p] = [before |-> 0,
                                             after |-> i.after.files[p].locCount,
                                             delta |-> i.after.files[p].locCount]
                    /\ c = "modified" =>
                          diff.details[p] = [before |-> i.before.files[p].locCount,
                                             after |-> i.after.files[p].locCount,
                                             delta |-> i.after.files[p].locCount
                                                        - i.before.files[p].locCount]

\* A comparison where one file was touched without an edit (same hash, later
\* lastModified) and is not reported, next to a file that was removed.
C24_Witness ==
    /\ Compared
    /\ Unwrap(callOut).removed # {}
    /\ \E p \in beforePaths \cap afterPaths :
          /\ Unwrap(callIn).after.files[p].hash = Unwrap(callIn).before.files[p].hash
          /\ Unwrap(callIn).after.files[p].lastModified
                # Unwrap(callIn).before.files[p].lastModified
          /\ p \notin DOMAIN Unwrap(callOut).details

\* ------------------------------------------------------------ C25
Loaded ==
    /\ callIn # None /\ callOut # None
    /\ "loaded" \in DOMAIN Unwrap(callOut)
    /\ Unwrap(callOut).loaded # None

\* C25: a snapshot serialized for storage and deserialized again has a file
\* map with the same keys and the same record under each key, and the same
\* totalLoc, whatever the snapshot, the one with no files included.
C25_RoundTrip ==
    Loaded =>
        LET snapshot == Unwrap(callIn).snapshot
            loaded == Unwrap(Unwrap(callOut).loaded)
        IN /\ DOMAIN loaded.files = DOMAIN snapshot.files
           /\ \A p \in DOMAIN snapshot.files : loaded.files[p] = snapshot.files[p]
           /\ loaded.totalLoc = snapshot.totalLoc
           /\ loaded.totalLoc = calculateTotalLoc(loaded.files)

\* A snapshot of two files that went through storage and back.
C25_Witness ==
    /\ Loaded
    /\ DOMAIN Unwrap(Unwrap(callOut).loaded).files = Paths
    /\ Unwrap(callOut).stored.files # {}
    /\ Unwrap(Unwrap(callOut).loaded).totalLoc > 1

\* ------------------------------------------------------------ C26
RECURSIVE sumOfLineCounts(_, _)
sumOfLineCounts(files, S) ==
    IF S = {} THEN 0
    ELSE LET p == CHOOSE q \in S : TRUE
         IN files[p].locCount + sumOfLineCounts(files, S \ {p})

totalIsSum(snapshot) ==
    snapshot.totalLoc = sumOfLineCounts(snapshot.files, DOMAIN snapshot.files)

\* C26: every snapshot the manager produces (the baseline, the pre-operation
\* snapshot, the post-operation snapshot by full rescan or by merge), and
\* every snapshot it keeps in memory or in storage, has a totalLoc equal to
\* the sum of the line counts of the records of its own file map.
C26_TotalIsSumOfRecords ==
    /\ (callOut # None /\ Unwrap(callOut).ret # None)
          => totalIsSum(Unwrap(Unwrap(callOut).ret))
    /\ memB # None => totalIsSum(Unwrap(memB))
    /\ memLV # None => totalIsSum(Unwrap(memLV))
    /\ data[Key("baseline", "s1")] # None
          => totalIsSum(fromSerializable(Unwrap(data[Key("baseline", "s1")])))
    /\ data[Key("lastvalid", "s1")] # None
          => totalIsSum(fromSerializable(Unwrap(data[Key("lastvalid", "s1")]).snapshot))

\* A post-operation snapshot of two files built by merge over a base that no
\* longer matches the tree: its total is not the tree's total.
C26_Witness ==
    /\ callOut # None
    /\ Unwrap(callOut).kind = "commit"
    /\ Unwrap(callOut).ret # None
    /\ DOMAIN Unwrap(Unwrap(callOut).ret).files = Paths
    /\ Unwrap(Unwrap(callOut).ret).totalLoc # calculateTotalLoc(scanProject(disk))
    /\ memLV = Unwrap(callOut).ret

\* ------------------------------------------------------------ C27, C28
Answered ==
    callIn # None /\ callOut # None /\ "payload" \in DOMAIN Unwrap(callIn)

\* A payload that is neither a tool event nor a user prompt.
unrecognized(payload) == ~isHookData(payload) /\ ~isUserPromptSubmit(payload)

\* C27: an input that cannot be parsed, or that parses to something without
\* the fields of a tool event (and is no user prompt), is answered approve and
\* never block.
C27_MalformedApproved ==
    (Answered /\ unrecognized(Unwrap(callIn).payload))
        => Unwrap(callOut).decision = "approve"

Validated ==
    callIn # None /\ callOut # None /\ "change" \in DOMAIN Unwrap(callIn)

\* A PreToolUse of a file tool on a file that is not whitelisted.
enforcedEdit(i) ==
    i.event = "PreToolUse" /\ i.tool \in FileTools /\ ~i.whitelisted

storedNetChange(stats) == IF stats = None THEN 0 ELSE Unwrap(stats).netChange

\* C29: with the guard enabled and session-wide enforcement, an edit is blocked
\* exactly when the session's stored net change plus the operation's net change
\* is greater than allowedPositiveLines, and approved otherwise.
C29_SessionWideDecision ==
    (/\ Validated
     /\ enforcedEdit(Unwrap(callIn))
     /\ Unwrap(callIn).mode = "session-wide"
     /\ isEnabled)
        => LET projected == storedNetChange(Unwrap(callOut).statsBefore)
                              + Unwrap(callIn).change.netChange
           IN /\ Unwrap(callOut).decision = "block" <=> projected > allowed
              /\ Unwrap(callOut).decision = "approve" <=> projected <= allowed

\* Allowance 10, session at +8, operation +5: blocked.
C29_Witness ==
    /\ Validated
    /\ enforcedEdit(Unwrap(callIn))
    /\ Unwrap(callIn).mode = "session-wide"
    /\ isEnabled
    /\ allowed = 10
    /\ storedNetChange(Unwrap(callOut).statsBefore) = 8
    /\ Unwrap(callIn).change.netChange = 5
    /\ Unwrap(callOut).decision = "block"
    /\ sessionStats = Unwrap(callOut).statsBefore

\* C30: when no guard state was ever stored, an edit whose net change exceeds
\* the allowance is blocked.
C30_EnforcedByDefault ==
    (/\ Validated
     /\ enforcedEdit(Unwrap(callIn))
     /\ guardState = None
     /\ storedNetChange(Unwrap(callOut).statsBefore) + Unwrap(callIn).change.netChange
           > allowed
     /\ Unwrap(callIn).change.netChange > allowed)
        => Unwrap(callOut).decision = "block"

\* ------------------------------------------------------------ C31
guardOff == guardState = None \/ ~Unwrap(guardState).enabled

\* The step handles a PreToolUse or a PostToolUse event.
ToolEventStep ==
    \/ phase = "idle" /\ phase' = "tool" /\ last'.kind = "PRE"
    \/ phase = "post" /\ phase' = "idle" /\ last'.kind = "POST"

\* C31: while the guard is disabled every PRE and POST event is answered
\* approve, no revert is attempted, the project files stay as the tool left
\* them, and storage (baseline, threshold, current total, pre and last-valid
\* snapshots) and the session statistics stay as they were.
C31_DisabledTouchesNothing ==
    [][(guardOff /\ ToolEventStep)
         => /\ last'.decision = "approve"
            /\ ~last'.revertCalled
            /\ disk' = disk
            /\ data' = data
            /\ sessionStats' = sessionStats
            /\ memB' = memB /\ memLV' = memLV]_vars

\* A POST answered while the guard was switched off, after the tool added more
\* lines than the allowance.
C31_Witness ==
    /\ last.kind = "POST"
    /\ guardState = Some([enabled |-> FALSE])
    /\ last.decision = "approve"
    /\ last.diskBefore = disk
    /\ calculateTotalLoc(scanProject(disk))
         - calculateTotalLoc(scanProject(last.opPreDisk)) > allowed
    /\ \A k \in Keys : data[k] = None

\* ------------------------------------------------------------ C32
\* C32: with the guard enabled, a PreToolUse Edit, MultiEdit or Write whose
\* file is in the locked-file list is blocked whatever its line-count change.
C32_LockedFileBlocked ==
    (/\ Validated
     /\ Unwrap(callIn).event = "PreToolUse"
     /\ Unwrap(callIn).tool \in FileTools
     /\ Unwrap(callIn).locked
     /\ isEnabled)
        => Unwrap(callOut).decision = "block"

\* ------------------------------------------------------------ C33
Counted ==
    callIn # None /\ callOut # None /\ "text" \in DOMAIN Unwrap(callIn)

\* C33: under the same ignore-empty-lines setting the scanner and the line
\* counter of the cumulative strategy give the same count for the same text:
\* the lines with a non-white-space character when the setting is on, every
\* line when it is off.
C33_CountersAgree ==
    Counted =>
        /\ Unwrap(callOut).scanner = Unwrap(callOut).counter
        /\ Unwrap(callIn).ignoreEmptyLines =>
              Unwrap(callOut).scanner
                = Cardinality({i \in 1..Len(Unwrap(callIn).text) :
                                 Unwrap(callIn).text[i] = "x"})

\* ------------------------------------------------------------ C34
ScanCalled ==
    callIn # None /\ callOut # None /\ "op" \in DOMAIN Unwrap(callIn)
    /\ Unwrap(callIn).op = "scanFiles"

\* The ignore verdict the claims describe: outside the root always ignored,
\* inside the root the last matching rule in load order decides.
outsideRoot(filePath) ==
    \/ Len(resolve(filePath)) < Len(RootDir)
    \/ SubSeq(resolve(filePath), 1, Len(RootDir)) # RootDir

notIgnored(gitignore, filePath) ==
    ~outsideRoot(filePath)
    /\ ~checkPatterns(loadPatterns(gitignore), relative(RootDir, filePath), FALSE)

scannable(fs, filePath) ==
    fs[resolve(filePath)] = "file" /\ ~isBinaryFile(filePath)

\* C34: scanFiles never fails, and its result holds a record for exactly the
\* listed paths that are existing, readable, regular, non-binary files and are
\* not ignored.
C34_ScanFilesPartialNeverFails ==
    ScanCalled =>
        /\ ~Unwrap(callOut).thrown
        /\ Unwrap(callOut).files =
             {p \in SeqToSet(Unwrap(callIn).filePaths) :
                /\ scannable(Unwrap(callIn).fs, p)
                /\ notIgnored(Unwrap(callIn).gitignore, p)}

\* A scan of one good file and one unreadable file that returned only the
\* good one.
C34_Witness ==
    /\ ScanCalled
    /\ Unwrap(callIn).filePaths = << <<"r", "src">>, <<"r", "node_modules", "src">> >>
    /\ Unwrap(callIn).gitignore # None
    /\ Unwrap(callIn).fs[<<"r", "src">>] = "file"
    /\ Unwrap(callIn).fs[<<"r", "node_modules", "src">>] = "unreadable"
    /\ ~isIgnored(loadPatterns(Unwrap(callIn).gitignore), <<"r", "node_modules", "src">>)
    /\ Unwrap(callOut).files = { <<"r", "src">> }
    /\ ~Unwrap(callOut).thrown

\* ------------------------------------------------------------ C35
IgnoreAsked ==
    callIn # None /\ callOut # None /\ "op" \in DOMAIN Unwrap(callIn)
    /\ Unwrap(callIn).op = "isIgnored"

\* C35: a path outside the root directory is always ignored, whatever rules
\* are loaded, and never appears in a scan result.
C35_OutsideRootIgnored ==
    /\ IgnoreAsked =>
         (outsideRoot(Unwrap(callIn).filePaths[1]) => Unwrap(callOut).ignored)
    /\ ScanCalled =>
         \A p \in Unwrap(callOut).files : ~outsideRoot(p)

\* A path that climbs out of the root, asked about under a negation rule
\* that matches everything, and still ignored.
C35_Witness ==
    /\ IgnoreAsked
    /\ Unwrap(callIn).filePaths = << <<"r", "..", "src">> >>
    /\ Unwrap(callIn).gitignore =
         Some(<< [kind |-> "rule", negated |-> TRUE, anchored |-> FALSE, glob |-> "*"] >>)
    /\ Unwrap(callOut).ignored

\* ------------------------------------------------------------ C36
\* C36: for a path inside the root the last matching rule in load order
\* decides, and a path no rule matches is not ignored.
C36_LastMatchingRuleDecides ==
    (IgnoreAsked /\ ~outsideRoot(Unwrap(callIn).filePaths[1])) =>
        Unwrap(callOut).ignored =
            checkPatterns(loadPatterns(Unwrap(callIn).gitignore),
                          relative(RootDir, Unwrap(callIn).filePaths[1]), FALSE)

\* ------------------------------------------------------------ C37
ValidatorStep == last'.kind = "validate" /\ events' = events + 1
PostStep == phase = "post" /\ phase' = "idle"
ResetStep == last'.kind = "reset" /\ events' = events + 1

\* The event was evaluated by the session-wide check.
evaluatedSessionWide(i) ==
    /\ i.event = "PreToolUse" /\ i.tool \in FileTools
    /\ ~i.whitelisted /\ i.mode = "session-wide"

\* The lines the POST handler attributes to the operation in flight.
operationLines ==
    cumulativeCheck(sessionStats,
        compareSnapshots(
            fromSerializable(Unwrap(data[Key("pre_latest", op.sid)]).snapshot),
            takePostOperationSnapshot(Mgr, disk, op.sid,
                Unwrap(data[Key("pre_latest", op.sid)]).affectedFiles).ret))

statsOrZero(stats) == IF stats = None THEN ZeroStats ELSE Unwrap(stats)

\* after is before plus one operation of the given lines.
countedOnce(before, linesAdded, linesRemoved, after) ==
    /\ after # None
    /\ Unwrap(after).totalLinesAdded = statsOrZero(before).totalLinesAdded + linesAdded
    /\ Unwrap(after).totalLinesRemoved = statsOrZero(before).totalLinesRemoved + linesRemoved
    /\ Unwrap(after).operationCount = statsOrZero(before).operationCount + 1

C38_NetChangeWithinAllowance ==
    sessionStats # None => Unwrap(sessionStats).netChange <= allowed

\* The session is at its allowance again after a reset, and the last edit was
\* blocked.
C38_Witness ==
    /\ last.kind = "validate" /\ last.decision = "block"
    /\ events = MaxStatEvents
    /\ sessionStats # None
    /\ Unwrap(sessionStats).operationCount = 1
    /\ Unwrap(sessionStats).netChange = allowed
    /\ allowed = MaxAllowed

\* ------------------------------------------------------------ C39
\* The PRE record a POST of session sid reads.
preRecord(sid) ==
    IF isSnapshotMode THEN data[Key("pre_minimal", sid)]
    ELSE data[Key("pre_latest", sid)]

\* The stored PRE record is the one the PRE event of the operation in flight
\* captured: the project as it was at that event, for that operation's files.
capturedForOperation ==
    /\ preRecord(op.sid) # None
    /\ fromSerializable(Unwrap(preRecord(op.sid)).snapshot).files = scanProject(opPreDisk)
    /\ Unwrap(preRecord(op.sid)).affectedFiles = getAffectedFiles(op.tool, op.filePath)

\* The POST handler diffed or reverted against the stored PRE record.
usesPreRecord ==
    /\ phase = "post" /\ phase' = "idle" /\ last'.kind = "POST"
    /\ isEnabled
    /\ IF isSnapshotMode THEN last'.revertCalled ELSE last'.hadPre

\* C39: a POST is diffed and reverted only against the PRE snapshot captured
\* for its own operation, never against the record an earlier operation left.
C39_PostUsesOwnPreSnapshot ==
    [][usesPreRecord => capturedForOperation]_vars

\* ------------------------------------------------------------ C40
\* The persisted records of a session the claim lists: baseline, baseline
\* threshold, current total and the two PRE records.
SessionRecordKinds == {"baseline", "threshold", "current", "pre_latest", "pre_minimal"}

\* C40: a step that handles an event or a checkpoint command of one session
\* leaves the persisted records of every other session as they were.
C40_OtherSessionsUntouched ==
    [][\A s \in Sessions \ {last'.sid} :
          \A kind \in SessionRecordKinds :
             data'[Key(kind, s)] = data[Key(kind, s)]]_vars

====
